---------------------------- MODULE Spec2Model ----------------------------
(***************************************************************************)
(* Model of hokku's persistence core: the security sanitizer               *)
(* (pkg/security), the payload metadata (internal/model) and the atomic    *)
(* file store (internal/service FileStoreImpl).                            *)
(*                                                                         *)
(* Strings are sequences of bytes.  A byte is written as a one-character   *)
(* string; the bytes that have no printable form are the tokens of         *)
(* ControlBytes and HighBytes below.                                       *)
(***************************************************************************)
EXTENDS Integers, Sequences, FiniteSets, TLC

VARIABLES
    fnArg,      \* argument of the pure function under check
    fnRet,      \* its result, NoRet before the call
    pc,         \* position of every Write call
    payload,    \* the payload every Write call was given
    fullPath,   \* Write's local fullPath
    tempPath,   \* writeFileAtomically's local tempPath
    err,        \* the error a Write call returns, "nil" for none
    before,     \* what the destination held when the security check passed
    dirs,       \* the directories that exist
    files,      \* the directory entries of regular files: path -> inode
    inodes,     \* the regular files: inode -> content, mode, synced
    rmFailed    \* the Write calls whose deferred os.Remove failed

vars == <<fnArg, fnRet, pc, payload, fullPath, tempPath, err, before,
          dirs, files, inodes, rmFailed>>

-----------------------------------------------------------------------------
(* Bytes *)

NUL == "NUL"
SOH == "SOH"
TAB == "TAB"
LF == "LF"
US == "US"
CR == "CR"
\* 0x00-0x1f
ControlBytes == {NUL, SOH, TAB, LF, CR, US}
\* the two bytes of U+00E9, and a byte that occurs in no UTF-8 text
HighBytes == {"xC3", "xA9", "xFF"}

Min(S) == CHOOSE x \in S : \A y \in S : x <= y
Max(S) == 0 - Min({0 - x : x \in S})

Repeat(c, n) == [i \in 1..n |-> c]

\* strings.Contains(s, sub)
Contains(s, sub) ==
    \E i \in 1..(Len(s) - Len(sub) + 1) : SubSeq(s, i, i + Len(sub) - 1) = sub

\* strings.HasPrefix(s, p)
HasPrefix(s, p) == Len(s) >= Len(p) /\ SubSeq(s, 1, Len(p)) = p

\* the bytes of s at the positions kept, an ascending sequence of positions
Pick(s, kept) == [j \in 1..Len(kept) |-> s[kept[j]]]

\* the bytes of s at the positions in keep, in order
KeepAt(s, keep) ==
    Pick(s, SelectSeq([i \in 1..Len(s) |-> i], LAMBDA i : i \in keep))

\* s from its first to its last position in idx
Span(s, idx) == IF idx = {} THEN <<>> ELSE SubSeq(s, Min(idx), Max(idx))

\* strings.Trim(s, cutset) for a cutset of single bytes
TrimSet(s, cut) == Span(s, {i \in 1..Len(s) : s[i] \notin cut})

\* utf8.ValidString
ValidString(s) ==
    \A i \in 1..Len(s) :
        /\ s[i] # "xFF"
        /\ s[i] = "xC3" => (i < Len(s) /\ s[i + 1] = "xA9")
        /\ s[i] = "xA9" => (i > 1 /\ s[i - 1] = "xC3")

\* unicode.IsSpace on the bytes of the model
SpaceBytes == {" ", TAB, LF, CR}

\* strings.TrimSpace
TrimSpace(s) == TrimSet(s, SpaceBytes)

\* strings.ToUpper on one byte
UpperOf(c) ==
    CASE c = "a" -> "A" [] c = "b" -> "B" [] c = "c" -> "C" [] c = "j" -> "J"
      [] c = "m" -> "M" [] c = "n" -> "N" [] c = "o" -> "O" [] c = "s" -> "S"
      [] c = "t" -> "T" [] c = "x" -> "X" [] OTHER -> c

ToUpper(s) == [i \in 1..Len(s) |-> UpperOf(s[i])]

-----------------------------------------------------------------------------
(* pkg/security: SanitizeFilename *)

MaxFilenameLength == 255
MaxPathLength == 4096

\* the character class of the regular expression unsafeChars
unsafeChars == {"<", ">", ":", "\"", "/", "\\", "|", "?", "*", " "} \cup ControlBytes

reservedNames ==
    {<<"C", "O", "N">>, <<"P", "R", "N">>, <<"A", "U", "X">>, <<"N", "U", "L">>}
    \cup {<<"C", "O", "M", d>> : d \in {"1", "2", "3", "4", "5", "6", "7", "8", "9"}}
    \cup {<<"L", "P", "T", d>> : d \in {"1", "2", "3", "4", "5", "6", "7", "8", "9"}}

\* no call made yet
NoRet == [val |-> <<>>, err |-> "pending"]

Ok(v) == [val |-> v, err |-> "nil"]
Fail(e) == [val |-> <<>>, err |-> e]

\* unsafeChars.ReplaceAllString(cleaned, "_")
ReplaceUnsafe(s) == [i \in 1..Len(s) |-> IF s[i] \in unsafeChars THEN "_" ELSE s[i]]

\* regexp `_+` replaced by "_"
CollapseUnderscores(s) ==
    KeepAt(s, {i \in 1..Len(s) : ~(s[i] = "_" /\ i > 1 /\ s[i - 1] = "_")})

\* s up to the first of the positions dots
UpTo(s, dots) == IF dots = {} THEN s ELSE SubSeq(s, 1, Min(dots) - 1)

\* strings.SplitN(s, ".", 2)[0]
BeforeFirstDot(s) == UpTo(s, {i \in 1..Len(s) : s[i] = "."})

\* s from the last of the positions stops, if that is a dot
FromLastDot(s, stops) ==
    IF stops = {} THEN <<>>
    ELSE IF s[Max(stops)] = "/" THEN <<>>
    ELSE SubSeq(s, Max(stops), Len(s))

\* filepath.Ext: the suffix from the last dot of the last path element
Ext(s) == FromLastDot(s, {i \in 1..Len(s) : s[i] \in {".", "/"}})

\* EnforceLength with the extension appended to a full-length name
CutKeepingExtOver(sanitized, ext) ==
    IF Len(ext) > 0 /\ Len(ext) < 10
    THEN SubSeq(sanitized, 1, MaxFilenameLength) \o ext
    ELSE SubSeq(sanitized, 1, MaxFilenameLength)

\* the truncation of a name longer than MaxFilenameLength, ext its extension
CutKeepingExt(sanitized, ext) ==
    IF Len(ext) > 0 /\ Len(ext) < 10
    THEN IF MaxFilenameLength - Len(ext) > 0
         THEN SubSeq(SubSeq(sanitized, 1, Len(sanitized) - Len(ext)),
                     1, MaxFilenameLength - Len(ext)) \o ext
         ELSE SubSeq(sanitized, 1, MaxFilenameLength)
    ELSE SubSeq(sanitized, 1, MaxFilenameLength)

\* the length limit at the end of SanitizeFilename
EnforceLength(sanitized) ==
    IF Len(sanitized) > MaxFilenameLength
    THEN CutKeepingExt(sanitized, Ext(sanitized))
    ELSE sanitized

\* the reserved-name step of SanitizeFilename
PrefixReserved(sanitized) ==
    IF ToUpper(BeforeFirstDot(sanitized)) \in reservedNames
    THEN <<"_">> \o sanitized
    ELSE sanitized

\* SanitizeFilename from the trimmed name on
SanitizeTrimmed(sanitized) ==
    IF sanitized = <<>> THEN Fail("ErrInvalidFilename")
    ELSE Ok(EnforceLength(PrefixReserved(sanitized)))

\* SanitizeFilename from the whitespace-trimmed input on
SanitizeCleaned(cleaned) ==
    IF cleaned = <<>> THEN Fail("ErrEmptyFilename")
    ELSE SanitizeTrimmed(TrimSet(CollapseUnderscores(ReplaceUnsafe(cleaned)),
                                 {"_", "."}))

SanitizeFilename(filename) ==
    IF filename = <<>> THEN Fail("ErrEmptyFilename")
    ELSE IF ~ValidString(filename) THEN Fail("ErrUnsafeCharacters")
    ELSE SanitizeCleaned(TrimSpace(filename))

-----------------------------------------------------------------------------
(* path/filepath, for the separator "/" *)

\* the working directory filepath.Abs resolves a relative path against
Getwd == <<"/", "w">>

DotDot == <<".", ".">>

\* the positions of "/" in s
Slashes(s) == {j \in 1..Len(s) : s[j] = "/"}

\* strings.Split(s, "/"), seps being the positions of "/" in ascending order
SplitAt(s, seps) ==
    [k \in 1..(Len(seps) + 1) |->
        SubSeq(s,
               IF k = 1 THEN 1 ELSE seps[k - 1] + 1,
               IF k = Len(seps) + 1 THEN Len(s) ELSE seps[k] - 1)]

Split(s) == SplitAt(s, SelectSeq([i \in 1..Len(s) |-> i], LAMBDA i : s[i] = "/"))

\* strings.Join(segs, "/")
RECURSIVE JoinSegs(_)
JoinSegs(segs) ==
    IF segs = <<>> THEN <<>>
    ELSE IF Len(segs) = 1 THEN segs[1]
    ELSE segs[1] \o <<"/">> \o JoinSegs(Tail(segs))

\* filepath.IsAbs
IsAbs(path) == HasPrefix(path, <<"/">>)

\* CleanSegs with the root's rule for ".." applied to relative paths as well
RECURSIVE CleanSegsDropsDotDot(_, _, _)
CleanSegsDropsDotDot(segs, out, rooted) ==
    IF segs = <<>> THEN out
    ELSE IF Head(segs) = <<>> \/ Head(segs) = <<".">>
    THEN CleanSegsDropsDotDot(Tail(segs), out, rooted)
    ELSE IF Head(segs) = DotDot
    THEN CleanSegsDropsDotDot(Tail(segs), SubSeq(out, 1, Len(out) - 1), rooted)
    ELSE CleanSegsDropsDotDot(Tail(segs), Append(out, Head(segs)), rooted)

\* the elements filepath.Clean keeps: "" and "." dropped, ".." cancelling the
\* element before it, dropped at the root and kept at the front of a relative path
RECURSIVE CleanSegs(_, _, _)
CleanSegs(segs, out, rooted) ==
    IF segs = <<>> THEN out
    ELSE IF Head(segs) = <<>> \/ Head(segs) = <<".">>
    THEN CleanSegs(Tail(segs), out, rooted)
    ELSE IF Head(segs) = DotDot
    THEN IF out # <<>> /\ out[Len(out)] # DotDot
         THEN CleanSegs(Tail(segs), SubSeq(out, 1, Len(out) - 1), rooted)
         ELSE IF rooted THEN CleanSegs(Tail(segs), out, rooted)
         ELSE CleanSegs(Tail(segs), Append(out, Head(segs)), rooted)
    ELSE CleanSegs(Tail(segs), Append(out, Head(segs)), rooted)

\* the cleaned path of the kept elements
Assemble(kept, rooted) ==
    IF rooted THEN <<"/">> \o JoinSegs(kept)
    ELSE IF kept = <<>> THEN <<".">>
    ELSE JoinSegs(kept)

\* filepath.Clean
Clean(path) ==
    IF path = <<>> THEN <<".">>
    ELSE Assemble(CleanSegs(Split(path), <<>>, IsAbs(path)), IsAbs(path))

\* filepath.Join of two elements: empty elements are ignored
Join(a, b) ==
    IF a = <<>> /\ b = <<>> THEN <<>>
    ELSE IF a = <<>> THEN Clean(b)
    ELSE IF b = <<>> THEN Clean(a)
    ELSE Clean(a \o <<"/">> \o b)

\* filepath.Abs
Abs(path) == IF IsAbs(path) THEN Clean(path) ELSE Join(Getwd, path)

\* the non-empty elements of a cleaned path
Elements(cleaned) == SelectSeq(Split(cleaned), LAMBDA e : e # <<>> /\ e # <<".">>)

\* the number of leading elements two paths share
CommonLen(bs, ts) ==
    Max({k \in 0..Min({Len(bs), Len(ts)}) : SubSeq(bs, 1, k) = SubSeq(ts, 1, k)})

\* filepath.Rel on the elements of the cleaned paths, k of them shared
RelFrom(bs, ts, k) ==
    IF k < Len(bs) /\ bs[k + 1] = DotDot THEN Fail("Rel")
    ELSE Ok(JoinSegs([i \in 1..(Len(bs) - k) |-> DotDot] \o SubSeq(ts, k + 1, Len(ts))))

\* filepath.Rel on cleaned paths
RelCleaned(base, targ) ==
    IF targ = base THEN Ok(<<".">>)
    ELSE IF IsAbs(base) # IsAbs(targ) THEN Fail("Rel")
    ELSE RelFrom(Elements(base), Elements(targ),
                 CommonLen(Elements(base), Elements(targ)))

\* filepath.Rel
Rel(basepath, targpath) == RelCleaned(Clean(basepath), Clean(targpath))

\* the last element of a path without trailing separators
LastOf(body) == IF body = <<>> THEN <<"/">> ELSE Split(body)[Len(Split(body))]

\* filepath.Base
Base(path) ==
    IF path = <<>> THEN <<".">>
    ELSE LastOf(Tail(TrimSet(<<"x">> \o path, {"/"})))

\* filepath.Dir
Dir(path) ==
    IF Slashes(path) = {} THEN <<".">>
    ELSE Clean(SubSeq(path, 1, Max(Slashes(path))))

-----------------------------------------------------------------------------
(* pkg/security: ValidatePath, IsSecurePath *)

\* the base-directory check of ValidatePath on the relative path found
WithinBase(relPath) ==
    IF relPath.err # "nil" THEN "ErrPathTraversal"
    ELSE IF HasPrefix(relPath.val, DotDot) THEN "ErrPathTraversal"
    ELSE "nil"

\* ValidatePath from the cleaned path on
ValidateCleaned(cleaned, baseDir) ==
    IF Contains(cleaned, DotDot) THEN "ErrPathTraversal"
    ELSE IF baseDir # <<>>
    THEN WithinBase(Rel(Abs(baseDir), Abs(Join(baseDir, cleaned))))
    ELSE "nil"

\* ValidatePath's error, "nil" for none
ValidatePath(path, baseDir) ==
    IF path = <<>> THEN "ErrEmptyFilename"
    ELSE IF Contains(path, <<NUL>>) THEN "ErrUnsafeCharacters"
    ELSE IF Len(path) > MaxPathLength THEN "ErrInvalidFilename"
    ELSE ValidateCleaned(Clean(path), baseDir)

\* IsSecurePath without its checks
IsSecurePathUnchecked(path, baseDir) == "nil"

\* IsSecurePath's error, "nil" for none
IsSecurePath(path, baseDir) ==
    IF ValidatePath(path, baseDir) # "nil" THEN ValidatePath(path, baseDir)
    ELSE SanitizeFilename(Base(path)).err

-----------------------------------------------------------------------------
(* internal/model WebhookPayload, internal/config *)

Digit(n) == <<"0", "1", "2", "3", "4", "5", "6", "7", "8", "9">>[n + 1]

\* the nil *WebhookPayload
Nil == [nil |-> TRUE]

\* the zero time.Time; any other Timestamp is a count of seconds 1..9
ZeroTime == 0

\* Timestamp.Format("2006-01-02_15-04-05")
FormatTime(t) ==
    <<"2", "0", "2", "4", "-", "0", "1", "-", "0", "1", "_",
      "0", "0", "-", "0", "0", "-", "0", Digit(t)>>

\* uuid.New().String() of the n-th draw
NewUUID(n) ==
    <<"0", "0", "0", "0", "0", "0", "0", "0", "-", "0", "0", "0", "0", "-",
      "4", "0", "0", "0", "-", "8", "0", "0", "0", "-",
      "0", "0", "0", "0", "0", "0", "0", "0", "0", "0", "0", Digit(n)>>

\* GenerateID without the test of p.ID
GenerateIDAlways(p, fresh) == [p EXCEPT !.ID = fresh]

\* WebhookPayload.GenerateID, fresh being the UUID drawn
GenerateID(p, fresh) == IF p.ID = <<>> THEN [p EXCEPT !.ID = fresh] ELSE p

\* SetTimestamp without the test of p.Timestamp
SetTimestampAlways(p, now) == [p EXCEPT !.Timestamp = now]

\* WebhookPayload.SetTimestamp, now being time.Now().UTC()
SetTimestamp(p, now) ==
    IF p.Timestamp = ZeroTime THEN [p EXCEPT !.Timestamp = now] ELSE p

\* Config.GetStoragePath()
StoragePath == <<"/", "s">>

\* Config.GetMaxFileSize(), in blocks of serialized output
MaxFileSize == 2

-----------------------------------------------------------------------------
(* GenerateSecureFilename and FileStoreImpl.generateSecureFilename *)

Webhook == <<"w", "e", "b", "h", "o", "o", "k">>
DotJson == <<".", "j", "s", "o", "n">>

\* hex.EncodeToString of the MinRandomBytes bytes rand.Read drew (draw k)
RandomHex(k) == Repeat("0", 15) \o <<Digit(k)>>

\* strings.TrimPrefix(extension, ".")
TrimDotPrefix(s) == IF HasPrefix(s, <<".">>) THEN Tail(s) ELSE s

\* the draw that stands for an error of rand.Read
RandFail == 0

\* the name GenerateSecureFilename builds from the sanitized prefix and the hex
\* string
SecureName(pre, randomHex, extension, cleanExt) ==
    IF extension = <<>>
    THEN Ok(IF pre # <<>> THEN pre \o <<"_">> \o randomHex ELSE randomHex)
    ELSE IF cleanExt.err # "nil" THEN Fail("invalid extension")
    ELSE Ok((IF pre # <<>> THEN pre \o <<"_">> \o randomHex ELSE randomHex)
            \o <<".">> \o cleanExt.val)

\* GenerateSecureFilename after the prefix was sanitized to pre
SecureFilenameFrom(pre, extension, draw) ==
    IF pre.err # "nil" THEN Fail("invalid prefix")
    ELSE IF draw = RandFail THEN Fail("rand")
    ELSE SecureName(pre.val, RandomHex(draw), extension,
                    SanitizeFilename(TrimDotPrefix(extension)))

\* GenerateSecureFilename; draw is the rand.Read outcome
GenerateSecureFilename(prefix, extension, draw) ==
    SecureFilenameFrom(IF prefix # <<>> THEN SanitizeFilename(prefix) ELSE Ok(<<>>),
                       extension, draw)

\* fmt.Sprintf("%s_%s_%s.json", timestamp.Format(..), payload.ID, sanitizedTitle)
FormatFilename(p, sanitizedTitle) ==
    FormatTime(p.Timestamp) \o <<"_">> \o p.ID \o <<"_">> \o sanitizedTitle \o DotJson

\* the title generateSecureFilename uses
TitleOrFallback(first) == IF first.err # "nil" THEN Webhook ELSE first.val

\* the final check of generateSecureFilename
FinalOrFallback(final, draw) ==
    IF final.err # "nil"
    THEN GenerateSecureFilename(Webhook, <<"j", "s", "o", "n">>, draw)
    ELSE final

\* FileStoreImpl.generateSecureFilename
generateSecureFilename(p, draw) ==
    FinalOrFallback(
        SanitizeFilename(FormatFilename(p, TitleOrFallback(SanitizeFilename(p.Title)))),
        draw)

-----------------------------------------------------------------------------
(* The file system and the state of the Write calls *)

\* the concurrent callers of Write
Writers == {1, 2, 3}

\* the names os.CreateTemp draws for the pattern ".tmp-webhook-*"
NumTempNames == 2
\* the seconds time.Now() can answer
MaxClock == 1
\* the outcomes of rand.Read
NumDraws == 1

TempPrefix == <<".", "t", "m", "p", "-", "w", "e", "b", "h", "o", "o", "k", "-">>
TempName(k) == TempPrefix \o <<Digit(k)>>

\* the inode of a file that was there before any call
OldInode == 0
\* the blocks that file holds
OldSize == 1

NoErr == [op |-> "nil", cause |-> "nil"]
WrapFileError(op, cause) == [op |-> op, cause |-> cause]
WrapValidationError(field) == [op |-> "validation", cause |-> field]

NoInode == [written |-> 0, mode |-> "none", synced |-> FALSE]

Exists(path) == \E e \in files : e[1] = path
InodeAt(path) == (CHOOSE e \in files : e[1] = path)[2]
Link(path, ino) == {e \in files : e[1] # path} \cup {<<path, ino>>}
Unlink(path) == {e \in files : e[1] # path}

\* the blocks of the serialized payload an inode is to hold
SizeOf(ino) == IF ino = OldInode THEN OldSize ELSE payload[ino].Bytes

\* no file at the path
Absent == [owner |-> -1, written |-> 0]

\* what a reader of path sees: nothing, or whose content and how much of it
View(path) ==
    IF Exists(path)
    THEN [owner |-> InodeAt(path), written |-> inodes[InodeAt(path)].written]
    ELSE Absent

\* the inodes after a step: an inode with no name left and no caller holding it
\* open is freed
Reclaim(ino, names, position) ==
    [i \in DOMAIN ino |->
        IF (\A e \in names : e[2] # i) /\ (i = OldInode \/ position[i] = "done")
        THEN NoInode ELSE ino[i]]

\* a directory and the directories above it
RECURSIVE Ancestors(_)
Ancestors(dir) ==
    IF dir \in {<<"/">>, <<".">>} THEN {dir} ELSE {dir} \cup Ancestors(Dir(dir))

storeVars == <<pc, payload, fullPath, tempPath, err, before, dirs,
               files, inodes, rmFailed>>

\* no Write call: the state of the pure-function specifications
StoreIdle ==
    /\ pc = <<>>
    /\ payload = <<>>
    /\ fullPath = <<>>
    /\ tempPath = <<>>
    /\ err = <<>>
    /\ before = <<>>
    /\ dirs = {}
    /\ files = {}
    /\ inodes = <<>>
    /\ rmFailed = {}

-----------------------------------------------------------------------------
(* FileStoreImpl.Write, one action per step that touches the file system *)

LongTitle == Repeat("a", MaxFilenameLength + 45)

\* the payloads Write is called with; Bytes is the size of the serialized
\* payload in blocks, Encodable whether json.MarshalIndent accepts Data
Plain == [Title |-> <<"a">>, ID |-> <<"u">>, Timestamp |-> 1,
          Bytes |-> MaxFileSize, Encodable |-> TRUE]
Traversal == [Title |-> <<".", ".", "/", ".", ".", "/", "e", "\\", NUL, "p">>,
              ID |-> <<>>, Timestamp |-> 1, Bytes |-> 1, Encodable |-> TRUE]
DoubleDot == [Title |-> <<"a", ".", ".", "b">>, ID |-> <<>>, Timestamp |-> 1,
              Bytes |-> 1, Encodable |-> TRUE]
Long == [Title |-> LongTitle, ID |-> <<>>, Timestamp |-> ZeroTime,
         Bytes |-> 1, Encodable |-> TRUE]
TooLarge == [Title |-> <<".", ".">>, ID |-> <<>>, Timestamp |-> 1,
             Bytes |-> MaxFileSize + 1, Encodable |-> TRUE]
Reserved == [Title |-> <<"C", "O", "N">>, ID |-> <<>>, Timestamp |-> 1,
             Bytes |-> 1, Encodable |-> TRUE]
BadID == [Title |-> <<"a">>, ID |-> <<"xFF">>, Timestamp |-> 1,
          Bytes |-> 1, Encodable |-> FALSE]

\* an ID that is no UTF-8 text, in a payload that can be serialized
Garbled == [Title |-> <<"a">>, ID |-> <<"xFF">>, Timestamp |-> 1,
            Bytes |-> 1, Encodable |-> TRUE]
\* a title the JSON encoder has to escape
Escaped == [Title |-> <<"a", "<", TAB, "\"", "xC3", "xA9">>, ID |-> <<>>,
            Timestamp |-> 1, Bytes |-> 1, Encodable |-> TRUE]

Payloads ==
    {Plain, Traversal, DoubleDot, Long, TooLarge, Reserved, BadID, Garbled, Escaped}

\* the payloads each caller chooses from
PayloadsOf(w) ==
    CASE w = 1 -> {Plain, Traversal, DoubleDot}
      [] w = 2 -> {Plain, Long, TooLarge}
      [] OTHER -> {Long, Reserved, BadID}

\* the destination a file may already be at before any call
OldDest ==
    Join(StoragePath,
         FormatTime(1) \o <<"_", "u", "_", "a">> \o DotJson)

Done(w, e) ==
    /\ pc' = [pc EXCEPT ![w] = "done"]
    /\ err' = [err EXCEPT ![w] = e]

Goto(w, label) == pc' = [pc EXCEPT ![w] = label]

\* a failed step of writeFileAtomically after the defer: the error is kept and
\* the deferred function runs
FailAtomic(w, cause) ==
    /\ pc' = [pc EXCEPT ![w] = "cleanup"]
    /\ err' = [err EXCEPT ![w] = WrapFileError("atomic write", cause)]

\* Write's security check of the path of the generated name
Checked(q, baseFilename, path) ==
    [payload |-> q,
     nameErr |-> baseFilename.err,
     path |-> path,
     secErr |-> IF baseFilename.err = "nil"
                THEN IsSecurePath(path, StoragePath) ELSE "nil"]

\* Write from the generated filename to the security check
Named(q, baseFilename) ==
    Checked(q, baseFilename, Join(StoragePath, baseFilename.val))

\* Write up to the security check, for the payload p of caller w: GenerateID,
\* SetTimestamp, generateSecureFilename, filepath.Join, IsSecurePath
Prepare(w, p, now, draw) ==
    Named(SetTimestamp(GenerateID(p, NewUUID(w)), now),
          generateSecureFilename(SetTimestamp(GenerateID(p, NewUUID(w)), now), draw))

\* Prepare, tabulated
Prepared ==
    [w \in Writers, p \in Payloads, now \in 1..MaxClock, draw \in 0..NumDraws |->
        Prepare(w, p, now, draw)]

\* Write from the security check on, r being what Prepare made of the payload:
\* the payload of the caller now has its ID and Timestamp
BeginWith(w, r) ==
    /\ payload' = [payload EXCEPT ![w] = r.payload]
    /\ IF r.nameErr # "nil"
       THEN /\ Done(w, WrapFileError("filename generation", r.nameErr))
            /\ UNCHANGED <<fullPath, before>>
       ELSE /\ fullPath' = [fullPath EXCEPT ![w] = r.path]
            /\ IF r.secErr # "nil"
               THEN /\ Done(w, WrapFileError("path validation", r.secErr))
                    /\ UNCHANGED before
               ELSE /\ Goto(w, "stat")
                    /\ before' = [before EXCEPT ![w] = View(r.path)]
                    /\ UNCHANGED err

\* ensureDirectoryExists ahead of the nil check and the security check
DirectoryBeforeCheck ==
    /\ dirs' = dirs \cup Ancestors(StoragePath)
    /\ UNCHANGED <<tempPath, files, inodes, rmFailed>>

\* Write up to the security check makes no call that reaches the file system
NoFileSystemCall == UNCHANGED <<tempPath, dirs, files, inodes, rmFailed>>

\* Write up to the security check
Begin(w) ==
    /\ pc[w] = "start"
    /\ \/ /\ Done(w, WrapValidationError("payload"))
          /\ UNCHANGED <<payload, fullPath, before>>
       \/ \E p \in PayloadsOf(w), now \in 1..MaxClock, draw \in 0..NumDraws :
            BeginWith(w, Prepared[w, p, now, draw])
    /\ NoFileSystemCall
    /\ UNCHANGED <<fnArg, fnRet>>

\* Write after ensureDirectoryExists returned nil: json.MarshalIndent and the
\* size check
AfterDirectory(w) ==
    IF ~payload[w].Encodable
    THEN Done(w, WrapFileError("json marshaling", "unsupported"))
    ELSE IF payload[w].Bytes > MaxFileSize
    THEN Done(w, WrapFileError("size validation", "exceeds limit"))
    ELSE Goto(w, "create") /\ UNCHANGED err

\* ensureDirectoryExists up to os.Stat
Stat(w) ==
    /\ pc[w] = "stat"
    /\ \E parentDir \in {Dir(fullPath[w])} :
       \E invalid \in {ValidatePath(parentDir, <<>>)} :
          \/ /\ invalid # "nil"
             /\ Done(w, WrapFileError("directory creation", "invalid directory path"))
          \/ /\ invalid = "nil"
             /\ parentDir \in dirs
             /\ AfterDirectory(w)
          \/ /\ invalid = "nil"
             /\ Exists(parentDir)
             /\ Done(w, WrapFileError("directory creation", "not a directory"))
          \/ /\ invalid = "nil"
             /\ parentDir \notin dirs
             /\ ~Exists(parentDir)
             /\ Goto(w, "mkdir")
             /\ UNCHANGED err
          \/ /\ invalid = "nil"
             /\ Done(w, WrapFileError("directory creation", "failed to stat"))
    /\ UNCHANGED <<fnArg, fnRet, payload, fullPath, tempPath, before, dirs,
                   files, inodes, rmFailed>>

\* os.MkdirAll(dirPath, 0755)
MkdirAll(w) ==
    /\ pc[w] = "mkdir"
    /\ \E above \in {Ancestors(Dir(fullPath[w]))} :
          \/ /\ \A d \in above : ~Exists(d)
             /\ dirs' = dirs \cup above
             /\ AfterDirectory(w)
          \/ /\ \E d \in above : Exists(d)
             /\ Done(w, WrapFileError("directory creation", "not a directory"))
             /\ UNCHANGED dirs
          \/ /\ Done(w, WrapFileError("directory creation", "failed to create"))
             /\ UNCHANGED dirs
    /\ UNCHANGED <<fnArg, fnRet, payload, fullPath, tempPath, before,
                   files, inodes, rmFailed>>

\* os.CreateTemp(dir, ".tmp-webhook-*"): O_CREATE|O_EXCL at a drawn name, mode 0600
CreateTemp(w) ==
    /\ pc[w] = "create"
    /\ \/ \E k \in 1..NumTempNames :
             \E name \in {Join(Dir(fullPath[w]), TempName(k))} :
                /\ Dir(fullPath[w]) \in dirs
                /\ ~Exists(name)
                /\ name \notin dirs
                /\ files' = Link(name, w)
                /\ inodes' = [inodes EXCEPT ![w] =
                                [written |-> 0, mode |-> "0600", synced |-> FALSE]]
                /\ tempPath' = [tempPath EXCEPT ![w] = name]
                /\ Goto(w, "write")
                /\ UNCHANGED err
       \/ /\ Done(w, WrapFileError("atomic write", "io"))
          /\ UNCHANGED <<files, inodes, tempPath>>
    /\ UNCHANGED <<fnArg, fnRet, payload, fullPath, before, dirs, rmFailed>>

\* tempFile.Write(data): one block per write(2); it goes to the open file,
\* whatever its name is by now
WriteBlock(w) ==
    /\ pc[w] = "write"
    /\ \/ /\ inodes' = [inodes EXCEPT ![w].written = @ + 1]
          /\ IF inodes[w].written + 1 = payload[w].Bytes
             THEN Goto(w, "sync") ELSE UNCHANGED pc
          /\ UNCHANGED err
       \/ /\ FailAtomic(w, "io")
          /\ UNCHANGED inodes
    /\ UNCHANGED <<fnArg, fnRet, payload, fullPath, tempPath, before, dirs, files,
                   rmFailed>>

\* tempFile.Sync()
Sync(w) ==
    /\ pc[w] = "sync"
    /\ \/ /\ inodes' = [inodes EXCEPT ![w].synced = TRUE]
          /\ Goto(w, "close")
          /\ UNCHANGED err
       \/ /\ FailAtomic(w, "io")
          /\ UNCHANGED inodes
    /\ UNCHANGED <<fnArg, fnRet, payload, fullPath, tempPath, before, dirs, files,
                   rmFailed>>

\* tempFile.Close()
Close(w) ==
    /\ pc[w] = "close"
    /\ \/ Goto(w, "chmod") /\ UNCHANGED err
       \/ FailAtomic(w, "io")
    /\ UNCHANGED <<fnArg, fnRet, payload, fullPath, tempPath, before, dirs, files,
                   inodes, rmFailed>>

\* os.Chmod(tempPath, 0644): by name
Chmod(w) ==
    /\ pc[w] = "chmod"
    /\ \/ /\ Exists(tempPath[w])
          /\ inodes' = [inodes EXCEPT ![InodeAt(tempPath[w])].mode = "0644"]
          /\ Goto(w, "rename")
          /\ UNCHANGED err
       \/ /\ ~Exists(tempPath[w])
          /\ FailAtomic(w, "ENOENT")
          /\ UNCHANGED inodes
       \/ /\ FailAtomic(w, "io")
          /\ UNCHANGED inodes
    /\ UNCHANGED <<fnArg, fnRet, payload, fullPath, tempPath, before, dirs, files,
                   rmFailed>>

\* os.Rename(tempPath, filePath): by name, replacing filePath in one step
Rename(w) ==
    /\ pc[w] = "rename"
    /\ \/ /\ Exists(tempPath[w])
          /\ fullPath[w] \notin dirs
          /\ files' = {e \in files : e[1] \notin {tempPath[w], fullPath[w]}}
                      \cup {<<fullPath[w], InodeAt(tempPath[w])>>}
          /\ Goto(w, "cleanup")
          /\ inodes' = Reclaim(inodes, files', pc')
          /\ UNCHANGED err
       \/ /\ ~Exists(tempPath[w])
          /\ FailAtomic(w, "ENOENT")
          /\ UNCHANGED <<files, inodes>>
       \/ /\ FailAtomic(w, "io")
          /\ UNCHANGED <<files, inodes>>
    /\ UNCHANGED <<fnArg, fnRet, payload, fullPath, tempPath, before, dirs,
                   rmFailed>>

\* a deferred function that removes the temporary file only when the write
\* succeeded
DeferredOnSuccess(w) == IF err[w] = NoErr THEN {tempPath[w]} ELSE {}

\* the paths the deferred function of writeFileAtomically removes
Deferred(w) == {tempPath[w]}

\* the deferred function of writeFileAtomically, on every return after the
\* defer: tempFile.Close(), then os.Remove(tempPath) by name, errors ignored
Cleanup(w) ==
    /\ pc[w] = "cleanup"
    /\ \/ /\ files' = {e \in files : e[1] \notin Deferred(w)}
          /\ UNCHANGED rmFailed
       \/ /\ Exists(tempPath[w])
          /\ rmFailed' = rmFailed \cup {w}
          /\ UNCHANGED files
    /\ Goto(w, "done")
    /\ inodes' = Reclaim(inodes, files', pc')
    /\ UNCHANGED <<fnArg, fnRet, payload, fullPath, tempPath, err, before, dirs>>

InitStore ==
    /\ payload = [w \in Writers |-> Nil]
    /\ fullPath = [w \in Writers |-> <<>>]
    /\ tempPath = [w \in Writers |-> <<>>]
    /\ err = [w \in Writers |-> NoErr]
    /\ before = [w \in Writers |-> Absent]
    /\ inodes = [i \in Writers \cup {OldInode} |->
                   IF i = OldInode
                   THEN [written |-> OldSize, mode |-> "0644", synced |-> TRUE]
                   ELSE NoInode]
    /\ rmFailed = {}
    /\ \/ dirs = {<<"/">>} /\ files = {}
       \/ dirs = {<<"/">>} /\ files = {<<StoragePath, OldInode>>}
       \/ dirs = {<<"/">>, StoragePath} /\ files = {}
       \/ dirs = {<<"/">>, StoragePath} /\ files = {<<OldDest, OldInode>>}

Init ==
    /\ fnArg = <<>>
    /\ fnRet = NoRet
    /\ InitStore
    /\ pc = [w \in Writers |-> "start"]

Next ==
    \E w \in Writers :
        \/ Begin(w)
        \/ Stat(w)
        \/ MkdirAll(w)
        \/ CreateTemp(w)
        \/ WriteBlock(w)
        \/ Sync(w)
        \/ Close(w)
        \/ Chmod(w)
        \/ Rename(w)
        \/ Cleanup(w)

Spec == Init /\ [][Next]_vars

\* two of the callers call Write, the third never does
InitPair ==
    /\ fnArg = <<>>
    /\ fnRet = NoRet
    /\ InitStore
    /\ \E w \in Writers : pc = [v \in Writers |-> IF v = w THEN "idle" ELSE "start"]

SpecPair == InitPair /\ [][Next]_vars

-----------------------------------------------------------------------------
(* Properties of concurrent Write calls *)

\* the call of w got a destination path past the security check
Proceeded(w) ==
    /\ pc[w] \notin {"idle", "start"}
    /\ fullPath[w] # <<>>
    /\ err[w].op # "path validation"

\* the call of w returned without an injected fault: with nil, or with the
\* error of a temporary file that was gone
Unfaulted(w) ==
    /\ pc[w] = "done"
    /\ Proceeded(w)
    /\ err[w] \in {NoErr, WrapFileError("atomic write", "ENOENT")}

\* the call of w returned the error of a step after the security check
FailedAfterCheck(w) ==
    /\ pc[w] = "done"
    /\ err[w].op \in {"directory creation", "json marshaling", "size validation",
                      "atomic write"}

\* the call of w has made its temporary file and has a step to come that uses
\* the path of it
Holding(w) ==
    \/ pc[w] \in {"write", "sync", "close", "chmod", "rename"}
    \/ pc[w] = "cleanup" /\ tempPath[w] \in Deferred(w)

\* a file is at path and holds less than its payload
Partial(path) ==
    /\ Exists(path)
    /\ inodes[InodeAt(path)].written # SizeOf(InodeAt(path))

\* a path that os.CreateTemp made
IsTempName(path) == HasPrefix(Base(path), TempPrefix)

\* the name of a file directly inside the storage root
NameIn(path) == SubSeq(path, Len(StoragePath) + 2, Len(path))

\* C1: in every interleaving of the Write calls, at every step, the
\* destination path of every call is absent or holds the complete serialized
\* content of one payload, never an empty or partly written file.
C1_DestinationNeverPartial ==
    \A w \in Writers : Proceeded(w) => ~Partial(fullPath[w])

\* C2: when a step of Write after the security check fails, Write returns an
\* error and the destination is as it was before the call: what was there
\* then, or the complete content of another call for the same destination.
C2_FailureLeavesDestination ==
    \A w \in Writers :
        FailedAfterCheck(w) =>
            \/ View(fullPath[w]) = before[w]
            \/ \E v \in Writers \ {w} :
                  /\ fullPath[v] = fullPath[w]
                  /\ View(fullPath[w]) = [owner |-> v, written |-> SizeOf(v)]

\* C3: whatever the title, every file a Write call creates lies directly
\* inside the storage root and its name has no path separator and no "..";
\* Write creates no directory outside the path of the storage root.
C3_FilesInsideStorageRoot ==
    /\ \A e \in files :
          e[2] \in Writers =>
             /\ HasPrefix(e[1], StoragePath \o <<"/">>)
             /\ NameIn(e[1]) # <<>>
             /\ ~Contains(NameIn(e[1]), <<"/">>)
             /\ ~Contains(NameIn(e[1]), <<"\\">>)
             /\ ~Contains(NameIn(e[1]), DotDot)
    /\ dirs \subseteq Ancestors(StoragePath)

\* a call with the traversal title returned nil and its file is stored
C3_Witness ==
    \E w \in Writers :
        /\ pc[w] = "done"
        /\ err[w] = NoErr
        /\ payload[w].Title = Traversal.Title
        /\ View(fullPath[w]) = [owner |-> w, written |-> SizeOf(w)]

\* the payload of w got its identifier from GenerateID
AutoID(w) == Proceeded(w) /\ payload[w].ID = NewUUID(w)

\* C4: calls whose payloads got their identifiers generated have different
\* destination paths, long titles included, and when every one of N
\* concurrent calls ran without a fault, N distinct files are stored.
C4_DistinctFilesStored ==
    /\ \A w, v \in Writers :
          w # v /\ AutoID(w) /\ AutoID(v) => fullPath[w] # fullPath[v]
    /\ (\A w \in Writers : AutoID(w) /\ Unfaulted(w)) =>
          Cardinality({fullPath[w] : w \in Writers} \cap {e[1] : e \in files})
             = Cardinality(Writers)

\* C5: two calls for the same destination that ran without a fault both
\* return nil, and the destination then holds the complete content of one of
\* them; it never holds a partly written file.
C5_SameDestinationBothSucceed ==
    \A w, v \in Writers :
        w # v /\ Proceeded(w) /\ Proceeded(v) /\ fullPath[w] = fullPath[v] =>
           /\ ~Partial(fullPath[w])
           /\ Unfaulted(w) /\ Unfaulted(v) =>
                 /\ err[w] = NoErr
                 /\ err[v] = NoErr
                 /\ View(fullPath[w]).owner \in {w, v}

\* C6: no two calls that have made their temporary file and have yet to use
\* its path hold the same temporary path.
C6_TempPathsExclusive ==
    \A w, v \in Writers :
        w # v /\ Holding(w) /\ Holding(v) => tempPath[w] # tempPath[v]

\* C7: once a call returned, with nil or with the error of a step after
\* os.CreateTemp, and its os.Remove did not fail, the file it created is
\* under no temporary name; when every call returned and no removal failed,
\* the directory holds no temporary file.
C7_NoTempFileLeftBehind ==
    /\ \A w \in Writers :
          pc[w] = "done" /\ w \notin rmFailed =>
             \A e \in files : e[2] = w => ~IsTempName(e[1])
    /\ (rmFailed = {} /\ \A w \in Writers : pc[w] \in {"idle", "done"}) =>
          \A e \in files : ~IsTempName(e[1])

\* a call returned the error of a step after os.CreateTemp, having removed
\* its temporary file
C7_Witness ==
    \E w \in Writers :
        /\ pc[w] = "done"
        /\ w \notin rmFailed
        /\ tempPath[w] # <<>>
        /\ err[w] = WrapFileError("atomic write", "io")
        /\ ~Exists(tempPath[w])

-----------------------------------------------------------------------------
(* Bounds of the checked inputs *)

\* the longest string enumerated byte by byte
MaxShortLen == 3
\* how far below and above a length limit the long strings reach
LenMargin == 3

\* the strings that extend one of shorter, those of length n - 1, by one byte
Extend(shorter, alphabet, n) ==
    shorter \cup {Append(t, c) : t \in {u \in shorter : Len(u) = n - 1}, c \in alphabet}

RECURSIVE StringsUpTo(_, _)
StringsUpTo(alphabet, n) ==
    IF n = 0 THEN {<<>>} ELSE Extend(StringsUpTo(alphabet, n - 1), alphabet, n)

-----------------------------------------------------------------------------
(* SanitizeFilename on its own *)

SanitizeAlphabet == {"a", ".", "_", "/", "\\", " ", NUL, "xFF"}

SanitizeFixed ==
    { <<"C", "O", "N">>, <<"c", "o", "n", ".", "t", "x", "t">>,
      <<"C", "O", "M", "1">>, <<"P", "R", "N", ".", "a">>, <<"C", "O", "N", "a">>,
      <<"xC3", "xA9">>, <<"a", "xC3">>, <<TAB, "a", LF>>, <<"a", SOH, US, "b">>,
      <<"a", "<", ">", ":", "\"", "|", "?", "*", "b">> }

SanitizeLong ==
    { pre \o Repeat(c, n) \o suf :
        pre \in {<<>>, <<"C", "O", "N", ".">>, <<"a", "/">>},
        c \in {"a", "."},
        n \in (MaxFilenameLength - 4 - LenMargin)..(MaxFilenameLength + LenMargin),
        suf \in { <<>>, <<".", "t", "x", "t">>, <<"b", ".">>, <<"\\", "b">>,
                  <<".", "a", "b", "c", "d", "e", "f", "g", "h", "i", "j">>,
                  <<".", "a", "b", "c", "d", "e", "f", "g", "h">>,
                  <<SOH, "xC3", "xA9">> } }

SanitizeInputs ==
    StringsUpTo(SanitizeAlphabet, MaxShortLen) \cup SanitizeFixed \cup SanitizeLong

InitSanitize ==
    /\ fnArg \in SanitizeInputs
    /\ fnRet = NoRet
    /\ StoreIdle

CallSanitize ==
    /\ fnRet = NoRet
    /\ fnRet' = SanitizeFilename(fnArg)
    /\ UNCHANGED <<fnArg, storeVars>>

NextSanitize == CallSanitize

SpecSanitize == InitSanitize /\ [][NextSanitize]_vars

\* C8: every name SanitizeFilename returns without error has no path separator,
\* no NUL, no control byte 0x00-0x1f, and is at most 255 bytes long.
C8_SanitizedNameSafe ==
    fnRet.err = "nil" =>
        /\ \A i \in 1..Len(fnRet.val) : fnRet.val[i] \notin {"/", "\\"} \cup ControlBytes
        /\ Len(fnRet.val) <= MaxFilenameLength

\* a reserved name longer than the limit, with unsafe bytes, was prefixed and cut
C8_Witness ==
    /\ fnRet.err = "nil"
    /\ Len(fnArg) > MaxFilenameLength
    /\ ToUpper(BeforeFirstDot(fnArg)) \in reservedNames
    /\ \E i \in 1..Len(fnArg) : fnArg[i] \in {"\\", SOH}
    /\ Len(fnRet.val) = MaxFilenameLength
    /\ fnRet.val[1] = "_"

-----------------------------------------------------------------------------
(* ValidatePath on its own *)

PathAlphabet == {"a", ".", "/", NUL}

PathFixed ==
    { <<"s", "u", "b", "/", ".", ".", "/", "f">>,
      <<"s", "u", "b", "/", ".", ".", "/", ".", ".", "/", "f">>,
      <<".", "/", ".", ".", "/", ".", ".", "/", "e">>,
      <<"/", "e", "t", "c", "/", "p">>,
      <<"/", "s", "/", "f">>,
      <<"/", "s", "/", ".", ".", "/", "e">>,
      <<".", ".", "\\", ".", ".", "\\", "w">> }

PathLong ==
    { pre \o Repeat("a", n) :
        pre \in {<<>>, <<".", ".", "/">>},
        n \in (MaxPathLength - LenMargin)..(MaxPathLength + 1) }

PathInputs == StringsUpTo(PathAlphabet, MaxShortLen + 2) \cup PathFixed \cup PathLong

BaseDirs == {<<>>, <<"/", "s">>, <<"s">>, <<"/", "s", "/", "t">>}

InitPath ==
    /\ fnArg \in [path : PathInputs, baseDir : BaseDirs]
    /\ fnRet = NoRet
    /\ StoreIdle

CallValidatePath ==
    /\ fnRet = NoRet
    /\ fnRet' = [val |-> <<>>, err |-> ValidatePath(fnArg.path, fnArg.baseDir)]
    /\ UNCHANGED <<fnArg, storeVars>>

NextPath == CallValidatePath

SpecPath == InitPath /\ [][NextPath]_vars

\* the path does not stop at an earlier check of ValidatePath
PastEarlyChecks(path) ==
    /\ path # <<>>
    /\ ~Contains(path, <<NUL>>)
    /\ Len(path) <= MaxPathLength

HasDotDotSegment(path) == \E i \in 1..Len(Split(path)) : Split(path)[i] = DotDot

\* a ".." element of a relative path with no normal element left before it to cancel
RECURSIVE Escapes(_, _)
Escapes(segs, depth) ==
    IF segs = <<>> THEN FALSE
    ELSE IF Head(segs) = DotDot
    THEN depth = 0 \/ Escapes(Tail(segs), depth - 1)
    ELSE IF Head(segs) \in {<<>>, <<".">>} THEN Escapes(Tail(segs), depth)
    ELSE Escapes(Tail(segs), depth + 1)

\* C9: with a base directory, every path that has a ".." segment (and passes
\* the empty, NUL and length checks) fails with ErrPathTraversal, "sub/../f"
\* included.
C9_Original ==
    (/\ fnRet # NoRet
     /\ fnArg.baseDir # <<>>
     /\ PastEarlyChecks(fnArg.path)
     /\ HasDotDotSegment(fnArg.path))
    => fnRet.err = "ErrPathTraversal"

\* C9, for the ".." segments that survive filepath.Clean: with a base
\* directory, every relative path (non-empty, NUL-free, at most 4096 bytes)
\* with a ".." segment that cleaning cannot cancel against an earlier normal
\* segment fails with ErrPathTraversal.
C9_SurvivingDotDotRejected ==
    (/\ fnRet # NoRet
     /\ fnArg.baseDir # <<>>
     /\ PastEarlyChecks(fnArg.path)
     /\ ~IsAbs(fnArg.path)
     /\ Escapes(Split(fnArg.path), 0))
    => fnRet.err = "ErrPathTraversal"

\* "sub/../../f" under a base directory was rejected
C9_Witness ==
    /\ fnRet.err = "ErrPathTraversal"
    /\ fnArg.baseDir = <<"/", "s">>
    /\ fnArg.path = <<"s", "u", "b", "/", ".", ".", "/", ".", ".", "/", "f">>

\* where a candidate is: an absolute candidate at itself, a relative one under
\* the base directory
Located(path, baseDir) == IF IsAbs(path) THEN Abs(path) ELSE Abs(Join(baseDir, path))

\* the relative path from the base directory to the candidate starts with ".."
\* or there is none
Outside(rel) == rel.err # "nil" \/ HasPrefix(rel.val, DotDot)

\* C10: with a base directory, every candidate, relative or absolute, whose
\* absolute location is outside the base directory (the relative path from
\* the absolute base to it starts with "..") fails with ErrPathTraversal.
C10_OutsideBaseRejected ==
    (/\ fnRet # NoRet
     /\ fnArg.baseDir # <<>>
     /\ PastEarlyChecks(fnArg.path)
     /\ Outside(Rel(Abs(fnArg.baseDir), Located(fnArg.path, fnArg.baseDir))))
    => fnRet.err = "ErrPathTraversal"

-----------------------------------------------------------------------------
(* internal/service: PayloadValidatorImpl, the data tree *)

MaxNestingDepth == 5
MaxStringLength == 10000
MaxArrayLength == 1000
MaxObjectKeys == 100
\* the longest key of an object
MaxKeyLength == 100

\* the values of a data tree: kind is the Go type behind the interface{}, str
\* the bytes of a string, kids the entries of a map[string]interface{} (in no
\* order) or the elements of a []interface{} (in order, keys empty)
\* (a primitive carries in str the text json.Marshal prints for it)
Scalar(kind, text) == [kind |-> kind, str |-> text, kids |-> <<>>]
Str(s) == [kind |-> "string", str |-> s, kids |-> <<>>]
Obj(kids) == [kind |-> "object", str |-> <<>>, kids |-> kids]
Arr(kids) == [kind |-> "array", str |-> <<>>, kids |-> kids]
Entry(key, val) == [key |-> key, val |-> val]
Elem(val) == [key |-> <<>>, val |-> val]

\* the types validateDataStructure lets pass without a look at the value
\* (a NaN is a float64)
PrimitiveKinds == {"float64", "NaN", "int", "int64", "bool", "nil", "uint8", "float32"}

\* containsUnsafeCharacters: NUL or a control character other than \t \n \r
containsUnsafeCharacters(s) ==
    \E i \in 1..Len(s) : s[i] \in ControlBytes \ {TAB, LF, CR}

\* validateDataStructure, case string: the error, none if the set is empty
StringErrors(val) ==
    IF Len(val) > MaxStringLength THEN {"string length exceeds maximum"}
    ELSE IF ~ValidString(val) THEN {"invalid UTF-8 string"}
    ELSE IF containsUnsafeCharacters(val) THEN {"unsafe characters in string value"}
    ELSE {}

\* the depth check as a check of depth >= MaxNestingDepth
TooDeepFromMax(depth) == depth >= MaxNestingDepth

\* the depth check at the head of validateDataStructure
TooDeep(depth) == depth > MaxNestingDepth

RECURSIVE validateDataStructure(_, _)
RECURSIVE EntryErrors(_, _)
RECURSIVE FirstFailing(_, _, _)

\* validateDataStructure: the errors it can return, over the orders in which
\* range visits the entries of a map; it returns nil iff the set is empty
validateDataStructure(value, depth) ==
    IF TooDeep(depth) THEN {"nesting depth exceeds maximum"}
    ELSE IF value.kind = "string" THEN StringErrors(value.str)
    ELSE IF value.kind = "object"
    THEN IF Len(value.kids) > MaxObjectKeys THEN {"object key count exceeds maximum"}
         ELSE UNION {EntryErrors(value.kids[i], depth) : i \in 1..Len(value.kids)}
    ELSE IF value.kind = "array"
    THEN IF Len(value.kids) > MaxArrayLength THEN {"array length exceeds maximum"}
         ELSE FirstFailing(value.kids, depth,
                           {i \in 1..Len(value.kids) :
                               validateDataStructure(value.kids[i].val, depth + 1) # {}})
    ELSE IF value.kind \in PrimitiveKinds THEN {}
    ELSE {"unsupported data type"}

\* the loop over a map with the value visited at the depth of the map
EntryErrorsSameDepth(entry, depth) ==
    IF Len(entry.key) > MaxKeyLength THEN {"object key too long"}
    ELSE IF ~ValidString(entry.key) THEN {"invalid UTF-8 in object key"}
    ELSE validateDataStructure(entry.val, depth)

\* one round of the loop over a map: the key, then the value one level down
EntryErrors(entry, depth) ==
    IF Len(entry.key) > MaxKeyLength THEN {"object key too long"}
    ELSE IF ~ValidString(entry.key) THEN {"invalid UTF-8 in object key"}
    ELSE validateDataStructure(entry.val, depth + 1)

\* the loop over a slice returns at the first element that fails
FirstFailing(kids, depth, failing) ==
    IF failing = {} THEN {}
    ELSE validateDataStructure(kids[Min(failing)].val, depth + 1)

-----------------------------------------------------------------------------
(* encoding/json: the length of json.Marshal's output *)

\* the byte at i belongs to no well-formed UTF-8 sequence
InvalidAt(s, i) ==
    \/ s[i] = "xFF"
    \/ s[i] = "xC3" /\ (i = Len(s) \/ s[i + 1] # "xA9")
    \/ s[i] = "xA9" /\ (i = 1 \/ s[i - 1] # "xC3")

\* bytes written as a backslash and a letter
ShortEscapes == {"\"", "\\", TAB, LF, CR}
\* bytes written as \u and four hex digits (HTML escaping is on)
LongEscapes == (ControlBytes \ {TAB, LF, CR}) \cup {"<", ">", "&"}

\* the quoted, escaped text of a string; invalid bytes become U+FFFD
QuotedLen(s) ==
    2 + Len(s)
      + Cardinality({i \in 1..Len(s) : ~InvalidAt(s, i) /\ s[i] \in ShortEscapes})
      + 5 * Cardinality({i \in 1..Len(s) : InvalidAt(s, i) \/ s[i] \in LongEscapes})

\* the kinds json.Marshal returns an error for
Unmarshalable == {"NaN", "chan"}

RECURSIVE CanMarshal(_)
CanMarshal(value) ==
    /\ value.kind \notin Unmarshalable
    /\ \A i \in 1..Len(value.kids) : CanMarshal(value.kids[i].val)

RECURSIVE MarshalLen(_)
RECURSIVE KidsLen(_, _, _)

\* len(json.Marshal(value)), for a value that can be marshalled
MarshalLen(value) ==
    IF value.kind = "string" THEN QuotedLen(value.str)
    ELSE IF value.kind \in {"object", "array"}
    THEN 2 + KidsLen(value, 1, Len(value.kids)) + Max({Len(value.kids) - 1, 0})
    ELSE Len(value.str)

\* the entries lo..hi of a container: "key": before each value of an object
KidsLen(value, lo, hi) ==
    IF lo > hi THEN 0
    ELSE IF lo = hi
    THEN MarshalLen(value.kids[lo].val)
         + (IF value.kind = "object" THEN QuotedLen(value.kids[lo].key) + 1 ELSE 0)
    ELSE KidsLen(value, lo, (lo + hi) \div 2) + KidsLen(value, (lo + hi) \div 2 + 1, hi)

-----------------------------------------------------------------------------
(* internal/service: PayloadValidatorImpl.Validate *)

MaxTitleLength == 64
MaxDescLength == 512
MaxSourceLength == 128
MaxTypeLength == 32
\* HOKKU_MAX_DATA_SIZE, set to the length of two of the longest strings
MaxDataSize == 2 * MaxStringLength

Invalid(field, msg) == [val |-> <<field>>, err |-> msg]
InvalidKey(key) ==
    [val |-> <<"data", key>>, err |-> "reserved field name not allowed in data"]

\* Data == nil
NilMap == Scalar("nilmap", <<"n", "u", "l", "l">>)

LowerOf(c) ==
    CASE c = "A" -> "a" [] c = "C" -> "c" [] c = "D" -> "d" [] c = "E" -> "e"
      [] c = "I" -> "i" [] c = "L" -> "l" [] c = "M" -> "m" [] c = "N" -> "n"
      [] c = "O" -> "o" [] c = "P" -> "p" [] c = "R" -> "r" [] c = "S" -> "s"
      [] c = "T" -> "t" [] c = "U" -> "u" [] c = "Y" -> "y" [] OTHER -> c

ToLower(s) == [i \in 1..Len(s) |-> LowerOf(s[i])]

reservedFieldNames ==
    { <<"i", "d">>,
      <<"t", "i", "m", "e", "s", "t", "a", "m", "p">>,
      <<"t", "i", "t", "l", "e">>,
      <<"d", "e", "s", "c", "r", "i", "p", "t", "i", "o", "n">>,
      <<"s", "o", "u", "r", "c", "e">>,
      <<"t", "y", "p", "e">> }

dangerousChars == {"<", ">", "\"", "'", "&", ";", "|"}

\* the first of two checks that fails: a set of errors is nil when empty
OrElse(first, rest) == IF first # {} THEN first ELSE rest

validateString(fieldName, value, minLen, maxLen, required) ==
    IF required /\ TrimSpace(value) = <<>> THEN {Invalid(fieldName, "is required")}
    ELSE IF ~ValidString(value) THEN {Invalid(fieldName, "invalid UTF-8")}
    ELSE IF containsUnsafeCharacters(value) THEN {Invalid(fieldName, "unsafe characters")}
    ELSE IF Len(value) < minLen THEN {Invalid(fieldName, "too short")}
    ELSE IF Len(value) > maxLen THEN {Invalid(fieldName, "too long")}
    ELSE {}

\* an optional field is looked at only when it is not empty
IfProvided(value, errors) == IF value # <<>> THEN errors ELSE {}

SerializedTooLarge(data) == CanMarshal(data) /\ MarshalLen(data) > MaxDataSize

\* the recursive walk ahead of the size check
validateDataFieldWalkFirst(data) ==
    IF ~CanMarshal(data) THEN {Invalid("data", "cannot be serialized to JSON")}
    ELSE IF validateDataStructure(data, 0) # {}
    THEN {Invalid("data", e) : e \in validateDataStructure(data, 0)}
    ELSE IF MarshalLen(data) > MaxDataSize THEN {Invalid("data", "data size exceeds limit")}
    ELSE {}

validateDataField(data) ==
    IF ~CanMarshal(data) THEN {Invalid("data", "cannot be serialized to JSON")}
    ELSE IF MarshalLen(data) > MaxDataSize THEN {Invalid("data", "data size exceeds limit")}
    ELSE {Invalid("data", e) : e \in validateDataStructure(data, 0)}

\* the source rule with every white-space byte refused
SourceHasWhitespace(source) == \E i \in 1..Len(source) : source[i] \in SpaceBytes

\* strings.Contains(source, " ")
SourceHasSpace(source) == Contains(source, <<" ">>)

validateSourceFormat(source) ==
    IF SourceHasSpace(source) THEN {"source cannot contain spaces"}
    ELSE IF Contains(source, <<".", ".">>) THEN {"source format invalid: consecutive dots"}
    ELSE IF \E i \in 1..Len(source) : source[i] \in dangerousChars
    THEN {"source contains unsafe character"}
    ELSE {}

validateTypeFormat(eventType) ==
    IF Contains(eventType, <<" ">>) THEN {"type cannot contain spaces"}
    ELSE IF \E i \in 1..Len(eventType) : eventType[i] \in dangerousChars
    THEN {"type contains unsafe character"}
    ELSE IF HasPrefix(eventType, <<".">>) \/ eventType[Len(eventType)] = "."
    THEN {"type cannot start or end with dot"}
    ELSE IF Contains(eventType, <<".", ".">>) THEN {"type cannot contain consecutive dots"}
    ELSE {}

ValidateStructure(p) ==
    IF TrimSpace(p.Title) = <<>> THEN {Invalid("title", "is required")}
    ELSE IF p.Data = NilMap THEN {Invalid("data", "data field is required")}
    ELSE IF Len(p.Data.kids) = 0 THEN {Invalid("data", "data field cannot be empty")}
    ELSE {}

ValidateContent(p) ==
    OrElse(validateString("title", p.Title, 1, MaxTitleLength, TRUE),
    OrElse(IfProvided(p.Description,
               validateString("description", p.Description, 0, MaxDescLength, FALSE)),
    OrElse(IfProvided(p.Source,
               validateString("source", p.Source, 0, MaxSourceLength, FALSE)),
    OrElse(IfProvided(p.Type,
               validateString("type", p.Type, 0, MaxTypeLength, FALSE)),
           validateDataField(p.Data)))))

\* the reserved keys, compared as they are written
ReservedKeysExact(data) ==
    {data.kids[i].key : i \in {j \in 1..Len(data.kids) :
                                 data.kids[j].key \in reservedFieldNames}}

\* the keys range can meet first among the reserved ones
ReservedKeys(data) ==
    {data.kids[i].key : i \in {j \in 1..Len(data.kids) :
                                 ToLower(data.kids[j].key) \in reservedFieldNames}}

validateBusinessRules(p) ==
    OrElse({InvalidKey(k) : k \in ReservedKeys(p.Data)},
    OrElse(IfProvided(p.Source, {Invalid("source", e) : e \in validateSourceFormat(p.Source)}),
           IfProvided(p.Type, {Invalid("type", e) : e \in validateTypeFormat(p.Type)})))

\* business rules ahead of the content checks
ValidateRulesFirst(p) ==
    IF p = Nil THEN {Invalid("payload", "payload cannot be nil")}
    ELSE OrElse(ValidateStructure(p), OrElse(validateBusinessRules(p), ValidateContent(p)))

\* Validate: the errors it can return; nil iff there is none
Validate(p) ==
    IF p = Nil THEN {Invalid("payload", "payload cannot be nil")}
    ELSE OrElse(ValidateStructure(p), OrElse(ValidateContent(p), validateBusinessRules(p)))

-----------------------------------------------------------------------------
(* Validate on its own *)

\* containers beyond MaxNestingDepth in the deepest tree
DepthMargin == 2

Request(title, description, source, type, data) ==
    [Title |-> title, Description |-> description, Source |-> source,
     Type |-> type, Data |-> data]

\* a payload with nothing but a title and data
Bare(data) == Request(<<"a">>, <<>>, <<>>, <<>>, data)

One == Scalar("float64", <<"1">>)
Leaves == {Obj(<<>>), Arr(<<>>), Str(<<"v">>), One}

\* value inside n containers, kinds[1] the outermost
RECURSIVE Wrap(_, _, _)
Wrap(value, n, kinds) ==
    IF n = 0 THEN value
    ELSE Wrap(IF kinds[n] = "object" THEN Obj(<<Entry(<<"k">>, value)>>)
              ELSE Arr(<<Elem(value)>>),
              n - 1, kinds)

Chains ==
    {Wrap(leaf, n, kinds) :
        leaf \in Leaves, n \in 0..(MaxNestingDepth + DepthMargin),
        kinds \in [1..(MaxNestingDepth + DepthMargin) -> {"object", "array"}]}

\* objects only: the levels of the nesting test
Levels(n, leaf) == Wrap(leaf, n, [i \in 1..n |-> "object"])

\* data with one chain, and data with a deep and a shallow branch
DepthTrees ==
    {Obj(<<Entry(<<"k">>, c)>>) : c \in Chains}
    \cup {Obj(<<Entry(<<"k">>, Levels(n, leaf)), Entry(<<"j">>, Levels(m, One))>>) :
            n \in 0..(MaxNestingDepth + DepthMargin), m \in 0..1, leaf \in Leaves}
    \cup {Obj(<<Entry(<<"k">>, Arr(<<Elem(Levels(n, leaf)), Elem(Levels(m, leaf))>>))>>) :
            n \in {0, MaxNestingDepth - 1, MaxNestingDepth},
            m \in {0, MaxNestingDepth - 1, MaxNestingDepth}, leaf \in Leaves}

DepthInputs == {Bare(data) : data \in DepthTrees}

Longest == Repeat("x", MaxStringLength)
Id == <<"i", "d">>

OkData == Obj(<<Entry(<<"k">>, Str(<<"v">>)), Entry(<<"n">>, One)>>)
\* a reserved name two levels down
NestedReserved == Obj(<<Entry(<<"k">>, Obj(<<Entry(Id, One), Entry(<<"T", "y", "p", "e">>, One)>>))>>)
\* a reserved name, ahead of nothing, of a second one, of a string too long
\* and of a tree too deep
ReservedData ==
    { Obj(<<Entry(Id, One)>>),
      Obj(<<Entry(<<"k">>, One), Entry(<<"I", "d">>, Obj(<<>>))>>),
      Obj(<<Entry(<<"T", "Y", "P", "E">>, One), Entry(<<"s", "o", "u", "r", "c", "e">>, One)>>),
      Obj(<<Entry(<<"t", "i", "t", "l", "e">>, Str(<<"xFF">>))>>),
      Obj(<<Entry(Id, Levels(MaxNestingDepth, One))>>) }
\* names close to the reserved ones
UnreservedData ==
    { Obj(<<Entry(<<"i", "d", "s">>, One)>>),
      Obj(<<Entry(<<"i">>, One), Entry(<<"d">>, One)>>),
      Obj(<<Entry(<<"_", "i", "d">>, One)>>) }
PrimitiveData ==
    Obj(<<Entry(<<"a">>, Scalar("int", <<"1">>)), Entry(<<"b">>, Scalar("int64", <<"2">>)),
          Entry(<<"c">>, Scalar("bool", <<"t", "r", "u", "e">>)),
          Entry(<<"d">>, Scalar("nil", <<"n", "u", "l", "l">>)),
          Entry(<<"e">>, Scalar("float32", <<"0", ".", "5">>))>>)
TooLargeData == Obj(<<Entry(<<"k">>, Arr([i \in 1..3 |-> Elem(Str(Longest))]))>>)
\* a map failing on one key and, one level down, on another
TwoFailures ==
    Obj(<<Entry(<<"k">>, Str(<<"v", NUL>>)), Entry(<<"xFF">>, One),
          Entry(<<"j">>, Arr(<<Elem(One), Elem(Str(<<"xC3">>)), Elem(Str(<<SOH>>))>>))>>)
\* data at and over the limits on lengths
AtLimits ==
    { Obj(<<Entry(<<"k">>, Str(Longest))>>),
      Obj(<<Entry(<<"k">>, Arr([i \in 1..MaxArrayLength |-> Elem(One)]))>>),
      Obj([i \in 1..MaxObjectKeys |->
              Entry(<<Digit(i \div 100), Digit((i \div 10) % 10), Digit(i % 10)>>, One)]),
      Obj(<<Entry(Repeat("k", MaxKeyLength), Str(<<TAB, LF, CR, "<", "xC3", "xA9">>))>>) }
OverLimits ==
    { TooLargeData,
      Obj(<<Entry(<<"k">>, Str(Append(Longest, "x")))>>),
      Obj(<<Entry(<<"k">>, Arr([i \in 1..(MaxArrayLength + 1) |-> Elem(One)]))>>),
      Obj([i \in 1..(MaxObjectKeys + 1) |->
              Entry(<<Digit(i \div 100), Digit((i \div 10) % 10), Digit(i % 10)>>, One)]),
      Obj(<<Entry(Repeat("k", MaxKeyLength + 1), One)>>),
      Obj(<<Entry(Id, Str(Append(Longest, "x")))>>) }
\* data over MaxDataSize that breaks a limit of the walk as well: depth, string
\* length, array length, key count, type
Bulk == Arr([i \in 1..2 |-> Elem(Str(Longest))])
OverSizeAndLimits ==
    { Obj(<<Entry(<<"k">>, Levels(MaxNestingDepth, Bulk))>>),
      Obj(<<Entry(<<"k">>, Arr([i \in 1..2 |-> Elem(Str(Append(Longest, "x")))]))>>),
      Obj(<<Entry(<<"k">>, Arr([i \in 1..(MaxArrayLength + 1) |-> Elem(One)])),
            Entry(<<"j">>, Bulk)>>),
      Obj([i \in 1..(MaxObjectKeys + 1) |->
              Entry(<<Digit(i \div 100), Digit((i \div 10) % 10), Digit(i % 10)>>,
                    IF i = 1 THEN Bulk ELSE One)]),
      Obj(<<Entry(<<"k">>, Scalar("struct", <<"{", "}">>)), Entry(<<"j">>, Bulk)>>) }
BadData ==
    { TwoFailures,
      Obj(<<Entry(<<"k">>, Scalar("NaN", <<>>))>>),
      Obj(<<Entry(<<"k">>, Arr(<<Elem(Scalar("chan", <<>>))>>))>>),
      Obj(<<Entry(<<"k">>, Scalar("struct", <<"{", "}">>))>>),
      Obj(<<Entry(<<"k">>, Levels(MaxNestingDepth, One))>>) }
GoodData == {OkData, NestedReserved, PrimitiveData} \cup UnreservedData

Titles ==
    { <<"a">>, <<>>, <<" ", TAB>>, <<"xFF">>, <<"a", NUL>>, <<"a", LF>>,
      Repeat("a", MaxTitleLength), Repeat("a", MaxTitleLength + 1) }
Descriptions == { <<>>, <<"d">>, <<SOH>>, Repeat("d", MaxDescLength + 1) }
Sources == { <<>>, <<"s">>, <<"s", " ">>, <<"xA9">>, Repeat("s", MaxSourceLength + 1) }
Types ==
    { <<>>, <<"t">>, <<".", "t">>, <<"t", ".">>, <<"t", " ">>, <<"t", ".", ".", "t">>,
      <<"|">>, <<US>>, Repeat("t", MaxTypeLength + 1) }

FieldInputs ==
    {Request(title, description, source, type, data) :
        title \in Titles, description \in Descriptions, source \in Sources,
        type \in Types,
        data \in {NilMap, Obj(<<>>)} \cup GoodData \cup ReservedData \cup BadData}

SourceAlphabet == {"s", ".", " ", TAB, "<"}
SourceFixed ==
    { <<"s", LF>>, <<CR, "s">>, <<"s", NUL>>, <<">">>, <<"\"">>, <<"'">>, <<"&">>,
      <<";">>, <<"|">>, <<"s", "-", "1">>, Repeat("s", MaxSourceLength),
      Append(Repeat("s", MaxSourceLength - 1), TAB) }
SourceInputs ==
    {Request(<<"a">>, <<>>, source, type, data) :
        source \in StringsUpTo(SourceAlphabet, MaxShortLen) \cup SourceFixed,
        type \in {<<>>, <<".">>},
        data \in {OkData, Obj(<<Entry(Id, One)>>)}}

\* the long data, with the fields that fail before and after it
LimitInputs ==
    {Request(title, <<>>, source, <<>>, data) :
        title \in {<<"a">>, Repeat("a", MaxTitleLength + 1)},
        source \in {<<>>, <<"s", " ">>},
        data \in AtLimits \cup OverLimits \cup OverSizeAndLimits}

ValidateInputs == {Nil} \cup DepthInputs \cup FieldInputs \cup LimitInputs \cup SourceInputs

InitValidate ==
    /\ fnArg \in ValidateInputs
    /\ fnRet = NoRet
    /\ StoreIdle

\* Validate returns nil or one of the errors it can meet first
CallValidate ==
    /\ fnRet = NoRet
    /\ fnRet' \in (IF Validate(fnArg) = {} THEN {Ok(<<>>)} ELSE Validate(fnArg))
    /\ UNCHANGED <<fnArg, storeVars>>

NextValidate == CallValidate

SpecValidate == InitValidate /\ [][NextValidate]_vars

IsContainer(value) == value.kind \in {"object", "array"}

\* the depth counter at the deepest object or array of a tree whose root is
\* visited at depth
RECURSIVE DeepestContainer(_, _)
DeepestContainer(value, depth) ==
    Max({depth} \cup {DeepestContainer(value.kids[i].val, depth + 1) :
                         i \in {j \in 1..Len(value.kids) : IsContainer(value.kids[j].val)}})

\* the depth counter at the deepest value of any kind
RECURSIVE DeepestValue(_, _)
DeepestValue(value, depth) ==
    Max({depth} \cup {DeepestValue(value.kids[i].val, depth + 1) : i \in 1..Len(value.kids)})

NestingTooDeep == Invalid("data", "nesting depth exceeds maximum")

\* C11 as stated: of the trees that break no other limit, those whose deepest
\* object or array is entered with the counter at no more than MaxNestingDepth
\* are accepted, and those with a deeper object or array fail on their depth.
C11_Original ==
    (fnRet # NoRet /\ fnArg \in DepthInputs) =>
        IF DeepestContainer(fnArg.Data, 0) <= MaxNestingDepth
        THEN fnRet.err = "nil"
        ELSE fnRet = NestingTooDeep

\* C11: of the trees that break no other limit, those whose every value, the
\* scalars and the empty containers included, is visited with the counter at
\* no more than MaxNestingDepth are accepted, and all others fail on their
\* depth: an object or array at depth MaxNestingDepth has to be empty.
C11_DepthCountsEveryValue ==
    (fnRet # NoRet /\ fnArg \in DepthInputs) =>
        IF DeepestValue(fnArg.Data, 0) <= MaxNestingDepth
        THEN fnRet.err = "nil"
        ELSE fnRet = NestingTooDeep

\* five levels of objects below the root with a number in the innermost failed
C11_Witness ==
    /\ fnArg = Bare(Obj(<<Entry(<<"k">>, Levels(MaxNestingDepth, One))>>))
    /\ DeepestContainer(fnArg.Data, 0) = MaxNestingDepth
    /\ fnRet = NestingTooDeep

\* the checks of Validate on a payload that is not nil, each on its own, in the
\* order of the source: structure (title, data), content (title, description,
\* source, type, data size, data structure), business rules (reserved fields,
\* source format, type format)
Check(p, k) ==
    CASE k = 1 -> IF TrimSpace(p.Title) = <<>> THEN {Invalid("title", "is required")} ELSE {}
      [] k = 2 -> IF p.Data = NilMap THEN {Invalid("data", "data field is required")}
                  ELSE IF Len(p.Data.kids) = 0
                  THEN {Invalid("data", "data field cannot be empty")}
                  ELSE {}
      [] k = 3 -> validateString("title", p.Title, 1, MaxTitleLength, TRUE)
      [] k = 4 -> IfProvided(p.Description,
                      validateString("description", p.Description, 0, MaxDescLength, FALSE))
      [] k = 5 -> IfProvided(p.Source,
                      validateString("source", p.Source, 0, MaxSourceLength, FALSE))
      [] k = 6 -> IfProvided(p.Type, validateString("type", p.Type, 0, MaxTypeLength, FALSE))
      [] k = 7 -> IF ~CanMarshal(p.Data) THEN {Invalid("data", "cannot be serialized to JSON")}
                  ELSE IF MarshalLen(p.Data) > MaxDataSize
                  THEN {Invalid("data", "data size exceeds limit")}
                  ELSE {}
      [] k = 8 -> {Invalid("data", e) : e \in validateDataStructure(p.Data, 0)}
      [] k = 9 -> {InvalidKey(key) : key \in ReservedKeys(p.Data)}
      [] k = 10 -> IfProvided(p.Source,
                       {Invalid("source", e) : e \in validateSourceFormat(p.Source)})
      [] k = 11 -> IfProvided(p.Type, {Invalid("type", e) : e \in validateTypeFormat(p.Type)})

CheckIds == 1..11

FailingChecks(p) == {k \in CheckIds : Check(p, k) # {}}

\* whether k is the first check to fail
IsFirstFailing(p, k) == Check(p, k) # {} /\ \A j \in 1..(k - 1) : Check(p, j) = {}

\* C12: Validate returns exactly the error of the first check that fails, in the
\* fixed order nil payload, structure (title, data), content (title,
\* description, source, type, data size, data structure), business rules
\* (reserved fields, source format, type format), and nil iff no check fails.
C12_FirstFailingCheckReported ==
    fnRet # NoRet =>
        IF fnArg = Nil THEN fnRet = Invalid("payload", "payload cannot be nil")
        ELSE IF fnRet.err = "nil" THEN \A k \in CheckIds : Check(fnArg, k) = {}
        ELSE \E k \in CheckIds : IsFirstFailing(fnArg, k) /\ fnRet \in Check(fnArg, k)

\* a title too long, a description too long, a source with a space, a type
\* ending in a dot and a reserved key: only the title was reported
C12_Witness ==
    /\ fnArg # Nil
    /\ fnRet = Invalid("title", "too long")
    /\ {3, 4, 9, 10, 11} \subseteq FailingChecks(fnArg)

TopLevelKeys(data) == {data.kids[i].key : i \in 1..Len(data.kids)}

\* key is one of the six names in some mix of upper and lower case
IsReservedName(key) == \E name \in reservedFieldNames : ToLower(key) = name

ReservedFieldName == "reserved field name not allowed in data"

\* C13: when the structure and content checks pass, Validate returns a
\* reserved-field error iff some top-level key of data is, in any mix of case,
\* one of id, timestamp, title, description, source, type; the error names such
\* a top-level key, and the same names as keys of nested objects are accepted.
C13_ReservedTopLevelKeys ==
    (fnRet # NoRet /\ fnArg # Nil /\ \A k \in 1..8 : Check(fnArg, k) = {}) =>
        /\ fnRet.err = ReservedFieldName
             <=> \E key \in TopLevelKeys(fnArg.Data) : IsReservedName(key)
        /\ fnRet.err = ReservedFieldName =>
             \E key \in TopLevelKeys(fnArg.Data) :
                 IsReservedName(key) /\ fnRet = InvalidKey(key)

\* the key Id was refused, in a payload with nothing else wrong
C13_Witness ==
    /\ fnRet = InvalidKey(<<"I", "d">>)
    /\ fnArg = Bare(Obj(<<Entry(<<"k">>, One), Entry(<<"I", "d">>, Obj(<<>>))>>))

HasDangerousChar(source) == \E i \in 1..Len(source) : source[i] \in dangerousChars
HasDoubleDot(source) == \E i \in 1..(Len(source) - 1) : source[i] = "." /\ source[i + 1] = "."

\* C19 as stated: a source with a space, tab, newline or carriage return, with
\* one of < > " ' & ; | or with two dots in a row is rejected by Validate, and
\* any other source passes the source-format rule.
C19_Original ==
    (fnRet # NoRet /\ fnArg # Nil /\ fnArg.Source # <<>>) =>
        IF \/ \E i \in 1..Len(fnArg.Source) : fnArg.Source[i] \in {" ", TAB, LF, CR}
           \/ HasDangerousChar(fnArg.Source)
           \/ HasDoubleDot(fnArg.Source)
        THEN fnRet.err # "nil"
        ELSE Check(fnArg, 10) = {}

\* C19: a source with a space character, with one of < > " ' & ; | or with two
\* dots in a row is rejected by Validate, and any other source passes the
\* source-format rule: a tab, a newline or a carriage return does not fail it.
C19_SourceSpaceOnly ==
    (fnRet # NoRet /\ fnArg # Nil /\ fnArg.Source # <<>>) =>
        IF \/ \E i \in 1..Len(fnArg.Source) : fnArg.Source[i] = " "
           \/ HasDangerousChar(fnArg.Source)
           \/ HasDoubleDot(fnArg.Source)
        THEN fnRet.err # "nil"
        ELSE Check(fnArg, 10) = {}

\* a payload whose source ends in a tab was accepted
C19_Witness ==
    /\ fnRet.err = "nil"
    /\ fnArg # Nil
    /\ fnArg.Source = <<"s", TAB>>

-----------------------------------------------------------------------------
(* One payload object through GenerateID, SetTimestamp and Write *)

\* the UUIDs the caller's own GenerateID calls draw
CallerDraws == {0, 9}
\* the times of the calls
CallerTimes == 1..(MaxClock + 1)

\* the Write calls the caller makes, one after the other
Successive == {1, 2}

\* no Write call is under way
Quiet == \A w \in Writers : pc[w] \in {"start", "done"}

\* the caller holds *WebhookPayload fnArg; its Write calls come one after the
\* other, the w-th one as caller w
InitObject ==
    /\ fnArg \in Payloads
    /\ fnRet = NoRet
    /\ InitStore
    /\ pc = [w \in Writers |-> "start"]

CallGenerateID ==
    /\ Quiet
    /\ \E n \in CallerDraws : fnArg' = GenerateID(fnArg, NewUUID(n))
    /\ UNCHANGED <<fnRet, storeVars>>

CallSetTimestamp ==
    /\ Quiet
    /\ \E now \in CallerTimes : fnArg' = SetTimestamp(fnArg, now)
    /\ UNCHANGED <<fnRet, storeVars>>

\* Write(fnArg) up to the security check: GenerateID and SetTimestamp act on
\* the object of the caller
WriteObject(w) ==
    /\ Quiet
    /\ w \in Successive
    /\ pc[w] = "start"
    /\ \A v \in Successive : v < w => pc[v] = "done"
    /\ \E now \in CallerTimes, draw \in 0..NumDraws :
          BeginWith(w, Prepare(w, fnArg, now, draw))
    /\ fnArg' = payload'[w]
    /\ UNCHANGED <<fnRet, tempPath, dirs, files, inodes, rmFailed>>

NextObject ==
    \/ CallGenerateID
    \/ CallSetTimestamp
    \/ \E w \in Writers :
        \/ WriteObject(w)
        \/ Stat(w)
        \/ MkdirAll(w)
        \/ CreateTemp(w)
        \/ WriteBlock(w)
        \/ Sync(w)
        \/ Close(w)
        \/ Chmod(w)
        \/ Rename(w)
        \/ Cleanup(w)

SpecObject == InitObject /\ [][NextObject]_vars

\* C14: once the ID or the Timestamp of a payload is set, no GenerateID,
\* SetTimestamp or Write call changes it, and GenerateID and SetTimestamp leave
\* a payload whose field is set as it is.
C14_SetOnce ==
    [][/\ fnArg.ID # <<>> => fnArg'.ID = fnArg.ID
       /\ fnArg.Timestamp # ZeroTime => fnArg'.Timestamp = fnArg.Timestamp
       /\ (fnArg.ID # <<>> /\ fnArg.Timestamp # ZeroTime) => fnArg' = fnArg]_vars

\* the ID drawn by GenerateID and the time set by SetTimestamp are still there
\* after two Write calls that came later
C14_Witness ==
    /\ fnArg.ID = NewUUID(9)
    /\ fnArg.Timestamp = MaxClock + 1
    /\ fnArg.Title = LongTitle
    /\ pc[1] = "done" /\ payload[1] = fnArg /\ err[1] = NoErr
    /\ pc[2] = "done" /\ payload[2] = fnArg

\* a step of a Write call, and its first step
WriteStep == \E w \in Writers : pc'[w] # pc[w]
WriteBegins == \E w \in Writers : pc[w] = "start" /\ pc'[w] # "start"

\* C15 as stated: no step of a Write call changes the payload of the caller.
C15_Original == [][WriteStep => fnArg' = fnArg]_vars

\* C15: a Write call leaves the title and the content of the payload of the
\* caller alone, and an ID and a Timestamp that are set; an ID that is empty
\* and a Timestamp that is zero it assigns, in its first step, whether it then
\* succeeds or fails.
C15_WriteAssignsUnsetMetadata ==
    [][/\ WriteStep =>
            fnArg' = [fnArg EXCEPT
                        !.ID = IF @ = <<>> THEN fnArg'.ID ELSE @,
                        !.Timestamp = IF @ = ZeroTime THEN fnArg'.Timestamp ELSE @]
       /\ WriteBegins => (fnArg'.ID # <<>> /\ fnArg'.Timestamp # ZeroTime)
       /\ (WriteStep /\ ~WriteBegins) => fnArg' = fnArg]_vars

\* the first Write call returned with an error and the payload, given without
\* ID and Timestamp, has the ID and the time of that call
C15_Witness ==
    /\ pc[1] = "done"
    /\ pc[2] = "start"
    /\ err[1] # NoErr
    /\ fnArg = [Long EXCEPT !.ID = NewUUID(1), !.Timestamp = MaxClock + 1]

-----------------------------------------------------------------------------
(* CheckDiskSpace ahead of Write *)

\* the callers that check the disk and then write
Checkers == {1, 2}

\* the blocks of the file system, the old file included: below, at and above what
\* CheckDiskSpace requires
DiskSizes == {2 * MaxFileSize - 1, 2 * MaxFileSize, 2 * MaxFileSize + OldSize}

\* the blocks an inode takes: the old file takes none when it has no name
Blocks(i) ==
    IF i = OldInode /\ \A e \in files : e[2] # OldInode THEN 0 ELSE inodes[i].written

RECURSIVE BlocksOf(_)
BlocksOf(inos) ==
    IF inos = {} THEN 0
    ELSE Blocks(CHOOSE i \in inos : TRUE)
         + BlocksOf(inos \ {CHOOSE i \in inos : TRUE})

\* stat.Bavail * stat.Bsize, fnArg being the size of the file system
Available == fnArg - BlocksOf(DOMAIN inodes)

NoCheck == [val |-> 0, err |-> "pending"]

WrapDiskError(operation) == [val |-> 0, err |-> operation]

Returned(w, result) == fnRet' = [fnRet EXCEPT ![w] = result]

\* the comparison with the minimum as availableBytes <= minimumRequired
BelowMinimumOrAt(availableBytes) == availableBytes <= MaxFileSize * 2

\* CheckDiskSpace: availableBytes < minimumRequired
BelowMinimum(availableBytes) == availableBytes < MaxFileSize * 2

\* CheckDiskSpace once syscall.Statfs returned
Sufficient(availableBytes) ==
    IF BelowMinimum(availableBytes)
    THEN [val |-> availableBytes, err |-> "insufficient space"]
    ELSE [val |-> availableBytes, err |-> "nil"]

\* a Statfs that sets blocks aside for the caller
AfterStatfsReserving(w) ==
    [inodes EXCEPT ![w] = [written |-> MaxFileSize, mode |-> "none", synced |-> FALSE]]

\* the inodes after syscall.Statfs: it reads
AfterStatfs(w) == inodes

InitDisk ==
    /\ fnArg \in DiskSizes
    /\ fnRet = [w \in Writers |-> NoCheck]
    /\ InitStore
    /\ pc = [w \in Writers |-> IF w \in Checkers THEN "check" ELSE "idle"]

\* CheckDiskSpace up to syscall.Statfs: ensureDirectoryExists(storagePath)
EnsureRoot(w) ==
    /\ pc[w] = "check"
    /\ \/ /\ ValidatePath(StoragePath, <<>>) = "nil"
          /\ StoragePath \in dirs
          /\ Goto(w, "statfs")
          /\ UNCHANGED <<fnRet, dirs>>
       \/ /\ ValidatePath(StoragePath, <<>>) = "nil"
          /\ StoragePath \notin dirs
          /\ \A d \in Ancestors(StoragePath) : ~Exists(d)
          /\ dirs' = dirs \cup Ancestors(StoragePath)
          /\ Goto(w, "statfs")
          /\ UNCHANGED fnRet
       \* a path that is invalid or not a directory, or os.Stat or
       \* os.MkdirAll failing
       \/ /\ Returned(w, WrapDiskError("directory access"))
          /\ Goto(w, "idle")
          /\ UNCHANGED dirs
    /\ UNCHANGED <<fnArg, payload, fullPath, tempPath, err, before, files, inodes,
                   rmFailed>>

\* CheckDiskSpace from syscall.Statfs on; the caller goes on to Write when the
\* error is nil
Statfs(w) ==
    /\ pc[w] = "statfs"
    /\ \/ /\ Returned(w, Sufficient(Available))
          /\ Goto(w, IF Sufficient(Available).err = "nil" THEN "start" ELSE "idle")
       \/ /\ Returned(w, WrapDiskError("filesystem stat"))
          /\ Goto(w, "idle")
    /\ inodes' = AfterStatfs(w)
    /\ UNCHANGED <<fnArg, payload, fullPath, tempPath, err, before, dirs, files,
                   rmFailed>>

\* tempFile.Write on a file system of fnArg blocks: a block is written only if
\* one is available
WriteBlockOnDisk(w) ==
    /\ WriteBlock(w)
    /\ inodes' # inodes => Available > 0

\* (Write finds the storage root in place: no MkdirAll)
NextDisk ==
    \E w \in Writers :
        \/ EnsureRoot(w)
        \/ Statfs(w)
        \/ Begin(w)
        \/ Stat(w)
        \/ CreateTemp(w)
        \/ WriteBlockOnDisk(w)
        \/ Sync(w)
        \/ Close(w)
        \/ Chmod(w)
        \/ Rename(w)
        \/ Cleanup(w)

SpecDisk == InitDisk /\ [][NextDisk]_vars

\* CheckDiskSpace returns to caller w in this step
CheckReturns(w) == fnRet[w].err = "pending" /\ fnRet'[w].err # "pending"

CheckStep == \E w \in Writers : pc[w] \in {"check", "statfs"} /\ pc'[w] # pc[w]

\* C17: CheckDiskSpace sets nothing aside: none of its steps changes a file, an
\* inode or the bytes available, and Write does not look at what it returned;
\* callers that each passed the check can, by writing, leave less available
\* than the 2 x MaxFileSize each of them was told of.
C17_CheckReservesNothing ==
    [][CheckStep =>
          /\ UNCHANGED <<files, inodes, payload, fullPath, tempPath, err, before>>
          /\ Available' = Available]_vars

\* both callers passed the check, both wrote their file, and less than
\* 2 x MaxFileSize is available now
C17_Witness ==
    /\ \A w \in Checkers :
          /\ fnRet[w].err = "nil"
          /\ fnRet[w].val >= 2 * MaxFileSize
          /\ pc[w] = "done"
          /\ err[w] = NoErr
          /\ Exists(fullPath[w])
    /\ fullPath[1] # fullPath[2]
    /\ Available < 2 * MaxFileSize

-----------------------------------------------------------------------------
(* The file a reader finds at a destination *)

\* the content of the inode is whole, on stable storage and has its final mode
Published(i) ==
    /\ inodes[i].written = SizeOf(i)
    /\ inodes[i].synced
    /\ inodes[i].mode = "0644"

\* C20: a Write call writes the whole content to its temporary file, syncs it,
\* closes it and sets its mode to 0644 before it renames it, so that whenever
\* the calls stop the destination of every call is untouched or a complete,
\* synced file of mode 0644, and never a file of another mode.
C20_DestinationPublished ==
    \A w \in Writers :
        (Proceeded(w) /\ Exists(fullPath[w])) =>
            \/ View(fullPath[w]) = before[w]
            \/ Published(InodeAt(fullPath[w]))

-----------------------------------------------------------------------------
(* encoding/json: strings written by json.MarshalIndent, read by json.Unmarshal *)

\* the four hex digits after \u
HexOf(c) ==
    CASE c = NUL -> <<"0", "0", "0", "0">>
      [] c = SOH -> <<"0", "0", "0", "1">>
      [] c = US -> <<"0", "0", "1", "f">>
      [] c = "<" -> <<"0", "0", "3", "c">>
      [] c = ">" -> <<"0", "0", "3", "e">>
      [] c = "&" -> <<"0", "0", "2", "6">>

\* the letter after the backslash of a short escape
LetterOf(c) ==
    CASE c = TAB -> "t" [] c = LF -> "n" [] c = CR -> "r" [] OTHER -> c

\* what the encoder writes for the byte at i: a byte of no UTF-8 sequence
\* becomes U+FFFD
EscapeAt(s, i) ==
    IF InvalidAt(s, i) THEN <<"\\", "u", "f", "f", "f", "d">>
    ELSE IF s[i] \in ShortEscapes THEN <<"\\", LetterOf(s[i])>>
    ELSE IF s[i] \in LongEscapes THEN <<"\\", "u">> \o HexOf(s[i])
    ELSE <<s[i]>>

RECURSIVE EscapeFrom(_, _)
EscapeFrom(s, i) == IF i > Len(s) THEN <<>> ELSE EscapeAt(s, i) \o EscapeFrom(s, i + 1)

\* the text between the quotes of the encoded string
EncodeString(s) == EscapeFrom(s, 1)

\* the bytes of the code point of four hex digits
RuneOf(hex) ==
    IF hex = <<"f", "f", "f", "d">> THEN <<"xEF", "xBF", "xBD">>
    ELSE <<CHOOSE c \in LongEscapes : HexOf(c) = hex>>

\* the byte a short escape stands for
ByteOf(letter) ==
    CASE letter = "t" -> TAB [] letter = "n" -> LF [] letter = "r" -> CR
      [] OTHER -> letter

RECURSIVE UnescapeFrom(_, _)
UnescapeFrom(text, i) ==
    IF i > Len(text) THEN <<>>
    ELSE IF text[i] # "\\" THEN <<text[i]>> \o UnescapeFrom(text, i + 1)
    ELSE IF text[i + 1] = "u"
    THEN RuneOf(SubSeq(text, i + 2, i + 5)) \o UnescapeFrom(text, i + 6)
    ELSE <<ByteOf(text[i + 1])>> \o UnescapeFrom(text, i + 2)

\* the string the decoder reads from the text between the quotes
DecodeString(text) == UnescapeFrom(text, 1)

\* the file json.MarshalIndent makes of a payload, and what json.Unmarshal
\* reads from it
Marshalled(p) == [title |-> EncodeString(p.Title), id |-> EncodeString(p.ID)]
Unmarshalled(doc) == [Title |-> DecodeString(doc.title), ID |-> DecodeString(doc.id)]

\* what parsing the file at path yields: an error for a file cut short
ParsedAt(path) ==
    IF ~Exists(path) THEN [Title |-> <<"ENOENT">>, ID |-> <<>>]
    ELSE IF Partial(path) \/ InodeAt(path) = OldInode
    THEN [Title |-> <<"unexpected end of JSON input">>, ID |-> <<>>]
    ELSE Unmarshalled(Marshalled(payload[InodeAt(path)]))

\* whether Validate accepts a payload of the title, with data it accepts
TitlePasses ==
    [title \in {p.Title : p \in Payloads} |->
        Validate(Request(title, <<>>, <<>>, <<>>, OkData)) = {}]

\* the payload of a Write call, taken as one that Validate is given
PassesValidate(p) == p.Encodable /\ TitlePasses[p.Title]

\* C18: when Write returned nil for a payload that passes Validate, parsing
\* the file at the path it returned yields the title and the identifier of
\* that payload.
C18_RoundTrip ==
    \A w \in Writers :
        (pc[w] = "done" /\ err[w] = NoErr /\ PassesValidate(payload[w])) =>
            ParsedAt(fullPath[w]) = [Title |-> payload[w].Title, ID |-> payload[w].ID]

\* C18 for the Write calls of one caller, which come one after the other: the
\* title and the identifier parsed from the file are those of the payload.
C18_RoundTripAlone ==
    \A w \in Successive :
        (pc[w] = "done" /\ err[w] = NoErr /\ PassesValidate(fnArg)
           /\ \A v \in Successive : pc[v] \in {"start", "done"}) =>
            ParsedAt(fullPath[w]) = [Title |-> fnArg.Title, ID |-> fnArg.ID]

-----------------------------------------------------------------------------
(* The order of the size check and the directory creation in Write *)

\* the step in which the call of w returns the error of the size check
SizeCheckFails(w) ==
    /\ pc[w] # "done"
    /\ pc'[w] = "done"
    /\ err'[w].op = "size validation"

\* C21: the call of Write that fails because the serialized payload exceeds
\* MaxFileSize has created no directory and no file, even when the storage
\* root did not exist before the call.
C21_SizeCheckBeforeMutation ==
    [][\A w \in Writers :
          SizeCheckFails(w) =>
             /\ dirs' = dirs
             /\ files' = files]_vars

-----------------------------------------------------------------------------
(* The order of the size check and the walk in validateDataField *)

DataTooLarge == Invalid("data", "data size exceeds limit")

\* the errors of the recursive walk
StructuralErrors ==
    {"nesting depth exceeds maximum", "string length exceeds maximum",
     "invalid UTF-8 string", "unsafe characters in string value",
     "object key count exceeds maximum", "object key too long",
     "invalid UTF-8 in object key", "array length exceeds maximum",
     "unsupported data type"}

\* the data trees among the inputs that are longer than MaxDataSize when
\* serialized and in which the walk finds a fault
BrokenAndLarge ==
    {data \in {p.Data : p \in ValidateInputs \ {Nil}} :
        /\ data # NilMap
        /\ SerializedTooLarge(data)
        /\ validateDataStructure(data, 0) # {}}

OverSizeAndBroken(p) == p # Nil /\ p.Data \in BrokenAndLarge

\* C22: data that is over MaxDataSize when serialized and breaks a limit of
\* the recursive walk as well is never rejected with an error of the walk, and
\* when the checks ahead of the data pass it is rejected with the data-size
\* error.
C22_SizeBeforeStructure ==
    (fnRet # NoRet /\ OverSizeAndBroken(fnArg)) =>
        /\ fnRet.err \notin StructuralErrors
        /\ (\A k \in 1..6 : Check(fnArg, k) = {}) => fnRet = DataTooLarge

\* data with more than MaxObjectKeys keys and more than MaxDataSize bytes was
\* rejected for its size
C22_Witness ==
    /\ fnRet = DataTooLarge
    /\ OverSizeAndBroken(fnArg)
    /\ Len(fnArg.Data.kids) > MaxObjectKeys

-----------------------------------------------------------------------------
(* The race of os.Stat and os.MkdirAll between concurrent calls *)

\* what Write made of the payloads of w that pass the security check
Secured(w) ==
    {r \in {Prepared[w, p, now, draw] :
               p \in PayloadsOf(w), now \in 1..MaxClock, draw \in 0..NumDraws} :
        r.nameErr = "nil" /\ r.secErr = "nil"}

\* two calls of Write on a store without its storage root, each past the
\* os.Stat that found the directory absent and ahead of its os.MkdirAll
InitRace ==
    /\ fnArg = <<>>
    /\ fnRet = NoRet
    /\ dirs = {<<"/">>}
    /\ files = {}
    /\ rmFailed = {}
    /\ inodes = [i \in Writers \cup {OldInode} |-> NoInode]
    /\ tempPath = [w \in Writers |-> <<>>]
    /\ err = [w \in Writers |-> NoErr]
    /\ before = [w \in Writers |-> Absent]
    /\ \E idle \in Writers :
       \E r \in {<<r1, r2, r3>> : r1 \in Secured(1), r2 \in Secured(2), r3 \in Secured(3)} :
          /\ pc = [w \in Writers |-> IF w = idle THEN "idle" ELSE "mkdir"]
          /\ payload = [w \in Writers |-> IF w = idle THEN Nil ELSE r[w].payload]
          /\ fullPath = [w \in Writers |-> IF w = idle THEN <<>> ELSE r[w].path]

NextRace ==
    \E w \in Writers :
        \/ MkdirAll(w)
        \/ CreateTemp(w)
        \/ WriteBlock(w)
        \/ Sync(w)
        \/ Close(w)
        \/ Chmod(w)
        \/ Rename(w)
        \/ Cleanup(w)

SpecRace == InitRace /\ [][NextRace]_vars

\* the call of w returned an error of ensureDirectoryExists that no I/O fault
\* explains
DirectoryCreationLost(w) ==
    /\ pc[w] = "done"
    /\ err[w].op = "directory creation"
    /\ err[w].cause # "failed to create"

\* the call of w returned with its temporary file gone from under it
TempFileLost(w) ==
    /\ pc[w] = "done"
    /\ err[w] = WrapFileError("atomic write", "ENOENT")

\* C23: when two calls of Write both found the storage root absent, the
\* os.MkdirAll of each succeeds unless an I/O fault is injected, and each call
\* goes on to return without an error caused by the other call.
C23_DirectoryRaceBenign ==
    \A w \in Writers : ~DirectoryCreationLost(w) /\ ~TempFileLost(w)

\* the part of C23 about the directory: after both calls found the storage root
\* absent, neither returns an error of the directory creation other than an
\* injected fault.
C23_DirectoryCreated ==
    \A w \in Writers : ~DirectoryCreationLost(w)

-----------------------------------------------------------------------------
(* The deferred removal of the temporary file *)

\* the call of v has created its temporary file and has not returned from
\* writeFileAtomically's body yet
InFlight(v) == pc[v] \in {"write", "sync", "close", "chmod", "rename"}

\* the step of the deferred function of the call of w
CleanupStep(w) == pc[w] = "cleanup" /\ pc'[w] = "done"

\* C24: in every interleaving of the Write calls, the deferred os.Remove of a
\* call removes no temporary file that another call has created and still has
\* in use, also after the rename of the first call freed the name.
C24_CleanupSparesOthers ==
    [][\A w \in Writers :
          CleanupStep(w) =>
             \A e \in files \ files' :
                ~(e[2] \in Writers \ {w} /\ InFlight(e[2]) /\ tempPath[e[2]] = e[1])]_vars

-----------------------------------------------------------------------------
(* Validate's titles in Write's filename generation and security check *)

\* C25: the Write call of a payload that Validate accepts never returns an
\* error of the filename generation or of the security check of its path.
C25_ValidatedPayloadSecured ==
    \A w \in Writers :
        (pc[w] = "done" /\ payload[w] # Nil /\ PassesValidate(payload[w])) =>
            err[w].op \notin {"filename generation", "path validation"}

-----------------------------------------------------------------------------
(* The depth limit and the content of the innermost container *)

\* a chain of containers, each the only value of the one around it, the
\* innermost one empty
RECURSIVE IsEmptyChain(_)
IsEmptyChain(value) ==
    /\ IsContainer(value)
    /\ Len(value.kids) <= 1
    /\ Len(value.kids) = 1 => IsEmptyChain(value.kids[1].val)

\* the chain with the scalar put into its innermost container
RECURSIVE Filled(_, _)
Filled(value, scalar) ==
    IF Len(value.kids) = 0
    THEN IF value.kind = "object" THEN Obj(<<Entry(<<"k">>, scalar)>>)
         ELSE Arr(<<Elem(scalar)>>)
    ELSE [value EXCEPT !.kids[1].val = Filled(value.kids[1].val, scalar)]

\* a string, a number, a boolean, null
FillScalars ==
    {Str(<<"v">>), One, Scalar("bool", <<"t", "r", "u", "e">>),
     Scalar("nil", <<"n", "u", "l", "l">>)}

\* Validate fails the payload on the depth of its data
FailsOnDepth(p) == NestingTooDeep \in Validate(p)

\* C26 as stated: for a chain of nested containers Validate gives the same
\* verdict on the nesting depth whether the innermost container is empty or
\* contains a scalar.
C26_Original ==
    (fnRet # NoRet /\ fnArg \in DepthInputs /\ IsEmptyChain(fnArg.Data)) =>
        \A scalar \in FillScalars :
            fnRet = NestingTooDeep <=> FailsOnDepth(Bare(Filled(fnArg.Data, scalar)))

\* C26: for a chain of nested containers Validate gives the same verdict on
\* the nesting depth whether the innermost container is empty or contains a
\* scalar, except when the innermost container is entered with the counter at
\* MaxNestingDepth: then the empty chain is accepted and the chain with a
\* scalar fails on its depth.
C26_ScalarCountsAsLevel ==
    (fnRet # NoRet /\ fnArg \in DepthInputs /\ IsEmptyChain(fnArg.Data)) =>
        \A scalar \in FillScalars :
            IF DeepestContainer(fnArg.Data, 0) = MaxNestingDepth
            THEN /\ fnRet.err = "nil"
                 /\ Validate(Bare(Filled(fnArg.Data, scalar))) = {NestingTooDeep}
            ELSE fnRet = NestingTooDeep <=> FailsOnDepth(Bare(Filled(fnArg.Data, scalar)))

\* a chain of objects with the innermost, empty one at MaxNestingDepth was
\* accepted, and with a number in it Validate fails on the depth
C26_Witness ==
    /\ fnArg = Bare(Obj(<<Entry(<<"k">>, Levels(MaxNestingDepth - 1, Obj(<<>>)))>>))
    /\ DeepestContainer(fnArg.Data, 0) = MaxNestingDepth
    /\ fnRet.err = "nil"
    /\ FailsOnDepth(Bare(Filled(fnArg.Data, One)))

-----------------------------------------------------------------------------
(* Validate and the order in which range visits the keys of a map *)

\* C27: Validate is deterministic: every run on the payload returns the result
\* this run returned, the same field and the same reason, whatever the order
\* in which the keys of data and of nested objects are visited.
C27_ValidateDeterministic ==
    (fnRet # NoRet /\ fnRet.err # "nil") =>
        \A other \in Validate(fnArg) : other = fnRet

-----------------------------------------------------------------------------
(* Write's returns ahead of the file system *)

\* the step in which the call of w returns the error of the nil check or of
\* the security check
RefusedEarly(w) ==
    /\ pc[w] = "start"
    /\ pc'[w] = "done"
    /\ err'[w].op \in {"validation", "path validation"}

\* C28: when the nil check or the security check of Write fails, the call
\* returns its error and has created no directory and no temporary file and
\* changed no file.
C28_RefusedWithoutFileSystem ==
    [][\A w \in Writers :
          RefusedEarly(w) =>
             /\ dirs' = dirs
             /\ files' = files
             /\ inodes' = inodes
             /\ tempPath'[w] = <<>>]_vars

\* a call was refused by the security check and another for its nil payload,
\* and the storage root is still absent
C28_Witness ==
    /\ StoragePath \notin dirs
    /\ files = {}
    /\ \E w, v \in Writers :
          /\ pc[w] = "done"
          /\ err[w] = WrapFileError("path validation", "ErrPathTraversal")
          /\ pc[v] = "done"
          /\ err[v] = WrapValidationError("payload")

-----------------------------------------------------------------------------
(* The ends of a sanitized name *)

\* C29: every name SanitizeFilename returns without error neither begins nor
\* ends with a dot, the names cut to MaxFilenameLength included.
C29_NoDotAtEnds ==
    (fnRet.err = "nil" /\ fnRet.val # <<>>) =>
        /\ fnRet.val[1] # "."
        /\ fnRet.val[Len(fnRet.val)] # "."

-----------------------------------------------------------------------------
(* internal/config: Config.Validate *)

\* the limits Config.Validate holds the fields to
FileSizeLimit == 100 * 1024 * 1024
MaxPort == 65535
TitleLengthLimit == 1024
DescLengthLimit == 4096

Production == <<"p", "r", "o", "d", "u", "c", "t", "i", "o", "n">>

\* Config.IsProduction
IsProduction(c) == ToLower(c.Environment) = Production

\* the loop over AllowedExtensions returns at the first extension that is
\* empty or holds a dot
ExtensionError(exts, bad) ==
    IF bad = {} THEN "nil"
    ELSE IF exts[Min(bad)] = <<>> THEN "empty extension in allowed extensions list"
    ELSE "extension should not contain dot"

\* Config.Validate from the check of MaxFileSize on
RangeError(c) ==
    IF c.MaxFileSize <= 0 THEN "max file size must be positive"
    ELSE IF c.MaxFileSize > FileSizeLimit THEN "max file size too large"
    ELSE IF c.Port <= 0 \/ c.Port > MaxPort THEN "invalid port number"
    ELSE IF IsProduction(c) /\ c.AuthToken = <<>>
    THEN "auth token is required in production environment"
    ELSE IF c.MaxTitleLength <= 0 \/ c.MaxTitleLength > TitleLengthLimit
    THEN "invalid max title length"
    ELSE IF c.MaxDescLength < 0 \/ c.MaxDescLength > DescLengthLimit
    THEN "invalid max description length"
    ELSE IF c.MaxDataSize <= 0 THEN "max data size must be positive"
    ELSE ExtensionError(c.AllowedExtensions,
                        {i \in 1..Len(c.AllowedExtensions) :
                            \/ c.AllowedExtensions[i] = <<>>
                            \/ Contains(c.AllowedExtensions[i], <<".">>)})

\* c.StoragePath = abs, for a path that is not absolute
Resolved(c) ==
    IF IsAbs(c.StoragePath) THEN c ELSE [c EXCEPT !.StoragePath = Abs(c.StoragePath)]

\* Config.Validate: the receiver after the call and the error returned; getwd
\* is whether the os.Getwd of filepath.Abs succeeds
ConfigValidate(c, getwd) ==
    IF c.StoragePath = <<>>
    THEN [val |-> c, err |-> "storage path cannot be empty"]
    ELSE IF ~IsAbs(c.StoragePath) /\ ~getwd
    THEN [val |-> c, err |-> "failed to resolve storage path"]
    ELSE [val |-> Resolved(c), err |-> RangeError(Resolved(c))]

Json == <<"j", "s", "o", "n">>

\* the configurations Validate is called on
Configs ==
    [StoragePath : {<<>>, StoragePath, <<"s">>, <<".", "/", "s">>,
                    <<"s", "/", ".", ".", "/", "t">>},
     MaxFileSize : {0, 1, FileSizeLimit, FileSizeLimit + 1},
     Port : {0, 8080, MaxPort + 1},
     AuthToken : {<<>>, <<"t">>},
     Environment : {Production, <<"P", "r", "o", "d", "u", "c", "t", "i", "o", "n">>,
                    <<"d", "e", "v">>},
     AllowedExtensions : {<<>>, <<Json>>, <<Json, <<>>>>, <<<<".", "j">>, <<>>>>},
     MaxTitleLength : {0, MaxTitleLength, TitleLengthLimit + 1},
     MaxDescLength : {-1, 0, DescLengthLimit + 1},
     MaxDataSize : {0, 1}]

InitConfig ==
    /\ fnArg \in Configs
    /\ fnRet = NoRet
    /\ StoreIdle

\* one call of Validate on the configuration
CallConfigValidate ==
    /\ fnRet.err = "pending"
    /\ \E getwd \in BOOLEAN : fnRet' = ConfigValidate(fnArg, getwd)
    /\ UNCHANGED <<fnArg, storeVars>>

NextConfig == CallConfigValidate

SpecConfig == InitConfig /\ [][NextConfig]_vars

\* C30: whenever Config.Validate returns an error, every field of the
\* configuration, StoragePath included, has the value it had before the call.
C30_FailedValidateChangesNothing ==
    fnRet.err \notin {"pending", "nil"} => fnRet.val = fnArg

=============================================================================
